---- MODULE Spec2Model ----
(***************************************************************************)
(* ZilaWS server: the waiter (request/reply) protocol of ZilaClient, the   *)
(* handler table and envelope dispatcher of ZilaServer, and the broadcast  *)
(* operations built on them.                                               *)
(*                                                                         *)
(* One step of the model is one task of the JavaScript run loop: a call    *)
(* of the public API, a socket event, or a timer expiry, together with the *)
(* promise reactions (microtasks) it triggers.                             *)
(***************************************************************************)
EXTENDS Integers, Sequences, FiniteSets, TLC

\* ---------------------------------------------------------------- bounds
MaxConns == 2       \* connections accepted during a run
MaxWaiters == 2     \* correlation ids generated during a run
MaxInFlight == 1    \* frames sent by the peers and not yet delivered
MaxSent == 2        \* frames written to one connection during a run
MaxBroadcasts == 1  \* broadcastWaiter calls during a run
MaxPending == 2     \* user handler invocations that have not returned yet
MaxStops == 2       \* calls of stopServer and stopServerAsync during a run
MaxItems == 2       \* payload values in the message of one envelope
MaxListeners == 2   \* listeners registered at a time, all event types together
MaxOnce == 2        \* onceEventListener calls during a run

\* ------------------------------------------------------- values and input
\* JavaScript values are modelled as strings; "pending" is an unsettled promise.
Values == {"v1", "v2"}              \* what a peer handler may return
UserIds == {"serverSample"}         \* identifiers the application registers
PeerHandlers == {"clientSample"}    \* identifiers the peer has a handler for
WaiterIds == {"clientSample", "doesNotExist"}
BroadcastIds == {"Broadcast"}       \* identifiers given to broadcastSend
DataSet == {<<"sampleText">>}       \* payloads given to the send operations
HandlerValues == {"serverSampleText success"}  \* what a user handler may return
\* frames a peer sends of its own: a request that wants a reply, a frame whose
\* identifier lacks the "@" marker, and a frame without a message
PeerFrames ==
  {[marker |-> TRUE, identifier |-> "serverSample",
    message |-> [isNull |-> FALSE, items |-> <<"serverSampleText">>], callbackId |-> "pcb"],
   [marker |-> TRUE, identifier |-> "serverSample",
    message |-> [isNull |-> FALSE, items |-> <<"serverSampleText">>], callbackId |-> "pcb2"],
   [marker |-> TRUE, identifier |-> "serverSample",
    message |-> [isNull |-> FALSE, items |-> <<"serverSampleText">>], callbackId |-> "null"],
   [marker |-> FALSE, identifier |-> "serverSample",
    message |-> [isNull |-> FALSE, items |-> <<"serverSampleText">>], callbackId |-> "null"],
   [marker |-> TRUE, identifier |-> "serverSample",
    message |-> [isNull |-> TRUE, items |-> <<>>], callbackId |-> "null"]}

\* remote addresses of the peers, and the reasons banClient may be given
LocalAddress == "127.0.0.1"
Addresses == {"127.0.0.1", "10.0.0.2"}
Reasons == {"undefined", "A reason to ban"}
\* texts a peer may send that are not envelopes: not JSON, and JSON without identifier
RawTexts == {[raw |-> "BADMESSAGE"], [raw |-> "{}"]}

\* enum CloseCodes
NORMAL == 1000
KICKED == 4001
BANNED == 4002

\* HTTP response statuses
SWITCHING == 101
FORBIDDEN == 403

\* request header values; "undefined" stands for a header that is not sent
SetCookieHeaders == {"undefined", "", "a=b"}
STypeHeaders == {"undefined", "1"}

\* the functions the application passes as event listeners
EventCallbacks == {"loc", "connectedEvent"}

\* event types of IServerEvents
ConnectionEvents == {"onClientConnect", "onClientDisconnect"}
MessageEvents == {"onClientRawMessageBeforeCallback", "onClientMessageBeforeCallback"}

\* payload values: what a handler may return, undefined included
PayloadValues == Values \cup {"undefined"}

\* the ban tables a registry may inject into a wrapper
BanMaps == UNION {[S -> Reasons] : S \in {{}, {LocalAddress}}}

\* the frames of PeerFrames that ask for a handler the way the dispatcher expects
RequestFrames == {f \in PeerFrames : f.marker /\ ~f.message.isNull}

\* frames that carry a correlation id a waiter may have drawn, as a peer that
\* has learnt the id can send them on any connection
CrossFrames ==
  {[marker |-> TRUE, identifier |-> "u" \o ToString(n),
    message |-> [isNull |-> FALSE, items |-> <<"v1">>], callbackId |-> "null"] :
     n \in 1..MaxWaiters}

\* frames the dispatcher has to tell apart: with and without marker, without message
InputFrames == {f \in PeerFrames : f.callbackId = "null"}

\* message: any[] | null
JNull == [isNull |-> TRUE, items |-> <<>>]
JArr(s) == [isNull |-> FALSE, items |-> s]

VARIABLES
  clients,       \* ZilaServer._clients: sequence of socket ids, in connect order
  readyState,    \* readyState[c]: the ws readyState of socket c
  callbacks,     \* ZilaServer.callbacks: identifier -> handler
  waiters,       \* one record per waiter call: its socket, uuid, timer and promise
  broadcasts,    \* one record per broadcastWaiter call
  pending,       \* user handler invocations whose result is not yet delivered
  sent,          \* sent[c]: the frames written to socket c, in order
  inbox,         \* inbox[c]: the frames the peer of c sent, not yet delivered
  ip,            \* ip[c]: ZilaClient.ip, the remote address of socket c
  closeSent,     \* closeSent[c]: code and reason of the close frame written to c
  bannedIpsAndReasons,  \* ZilaServer.bannedIpsAndReasons: address -> reason
  hasrequested,  \* ZilaServer.hasrequested
  unhandled,     \* a promise of the dispatcher was rejected with no handler attached
  status,        \* ZilaServer._status
  stopCalls,     \* the stop calls made so far, each with the signal it gave
  closeEmitted,  \* how often the ws server has emitted 'close'
  wssState,      \* the state of the ws WebSocketServer: RUNNING, CLOSING or CLOSED
  listening,     \* the HTTP(S) base server accepts requests
  wrapper,       \* a ServerWrapper object: its kind, settings and fields
  twin,          \* a Node wrapper and a Bun wrapper that are given the same operations
  wsockets,      \* the connections of the wrapper's transport, in accept order
  response,      \* the status of the HTTP response to the last upgrade request
  codec,         \* an envelope on its way through JSON.stringify and JSON.parse
  serverEvents,  \* ZilaServer.serverEvents: event type -> list of listeners
  trace,         \* the functions of the application the last connect, message or close event called, in order
  fired,         \* fired[n]: the n-th onceEventListener wrapper and how often it called its callback
  thrown         \* the error the last addEventListener call threw, or "none"

wireVars == <<ip, closeSent>>
banVars == <<bannedIpsAndReasons, hasrequested>>
stopVars == <<status, stopCalls, closeEmitted, wssState, listening>>

wrapVars == <<wrapper, wsockets, twin>>
eventVars == <<serverEvents, trace, fired, thrown>>

vars == <<clients, readyState, callbacks, waiters, broadcasts, pending, sent, inbox,
          wireVars, banVars, unhandled, stopVars, wrapVars, response, codec,
          eventVars>>

Sockets == 1..Len(clients)

RECURSIVE SumLen(_, _)
SumLen(q, k) == IF k = 0 THEN 0 ELSE Len(q[k]) + SumLen(q, k - 1)

\* frames the peers have sent that the server has not received yet
InFlight == SumLen(inbox, Len(inbox))

\* wss.clients of the ws server: the sockets whose 'close' has not occurred
wssClients == {c \in Sockets : readyState[c] # "CLOSED"}

\* --------------------------------------------------------- pure operators

\* JavaScript truthiness of a string | undefined
truthy(v) == v \notin {"undefined", ""}

\* no close frame has been written to the socket
NoClose == [code |-> 0, reason |-> "undefined"]

\* JSON.parse(msg): it throws on text that is not JSON; "{}" parses to an object
\* that has no identifier
JSONparse(msg) ==
  IF "raw" \in DOMAIN msg
  THEN [threw |-> msg.raw # "{}", hasIdentifier |-> FALSE, value |-> msg]
  ELSE [threw |-> FALSE, hasIdentifier |-> TRUE, value |-> msg]

\* crypto.randomUUID(): a value no earlier call returned
randomUUID(n) == "u" \o ToString(n + 1)

\* JSON.stringify of one array item: undefined is written as null
stringifyItem(v) == IF v = "undefined" THEN "null" ELSE v

\* JSON.stringify of an IWSMessage. The identifier string is kept as the pair
\* (marker, identifier): marker says whether its first character is "@".
JSONstringify(msg) ==
  [marker |-> msg.marker,
   identifier |-> msg.identifier,
   message |-> JArr([i \in 1..Len(msg.message) |-> stringifyItem(msg.message[i])]),
   callbackId |-> msg.callbackId]

getMessageJSON(identifier, data, callbackId, isBuiltIn) ==
  JSONstringify([marker |-> isBuiltIn, identifier |-> identifier,
                 message |-> data, callbackId |-> callbackId])

\* getMessageJSON for an envelope whose message is null or a list
encode(env) ==
  IF env.message.isNull
  THEN [getMessageJSON(env.identifier, <<>>, env.callbackId, env.marker)
          EXCEPT !.message = JNull]
  ELSE getMessageJSON(env.identifier, env.message.items, env.callbackId, env.marker)

\* socket.send(frame): ws writes the frame only while the socket is OPEN
socketSend(out, c, frame) ==
  IF readyState[c] = "OPEN" THEN [out EXCEPT ![c] = Append(@, frame)] ELSE out

\* ZilaClient.send(identifier, ...data)
send(out, c, identifier, data) ==
  socketSend(out, c, getMessageJSON(identifier, data, "null", FALSE))

setMessageHandler(cbs, identifier, callback) ==
  [x \in (DOMAIN cbs) \cup {identifier} |-> IF x = identifier THEN callback ELSE cbs[x]]

removeMessageHandler(cbs, identifier) ==
  [x \in (DOMAIN cbs) \ {identifier} |-> cbs[x]]

\* a handler closure that captures a shared slot instead of its own waiter
WaiterHandler_Shared(w) == [kind |-> "waiter", w |-> 1]

\* the closure a waiter registers under its uuid; w is the waiter it belongs to
WaiterHandler(w) == [kind |-> "waiter", w |-> w]
UserHandler == [kind |-> "user", w |-> 0]
OnceHandler == [kind |-> "once", w |-> 0]

\* a race in which a later fulfilment replaces the earlier one
PromiseAny_LastWins(result, value) == value

\* Promise.any over the handler promise and the timer promise: first fulfilment wins
PromiseAny(result, value) == IF result = "pending" THEN value ELSE result

\* clearTimeout(timeout)
clearTimeout(timer) == IF timer = "armed" THEN "cleared" ELSE timer

\* a waiter that registers its handler and sends, but never calls setTimeout
waiter_NoTimer(st, c, identifier, data) ==
  LET w == Len(st.waiters) + 1
      uuid == "u" \o ToString(w)
  IN [callbacks |-> [x \in (DOMAIN st.callbacks) \cup {uuid} |->
                       IF x = uuid THEN [kind |-> "waiter", w |-> w] ELSE st.callbacks[x]],
      waiters |-> Append(st.waiters,
                    [socket |-> c, uuid |-> uuid, timer |-> "cleared",
                     result |-> "pending"]),
      sent |-> IF readyState[c] = "OPEN"
               THEN [st.sent EXCEPT ![c] = Append(@,
                       [marker |-> FALSE, identifier |-> identifier,
                        message |-> [isNull |-> FALSE, items |-> data],
                        callbackId |-> uuid])]
               ELSE st.sent]

\* ZilaClient.waiter / waiterTimeout on socket c, applied to the server state st
waiter(st, c, identifier, data) ==
  LET w == Len(st.waiters) + 1
      uuid == randomUUID(Len(st.waiters))
  IN [callbacks |-> setMessageHandler(st.callbacks, uuid, WaiterHandler(w)),
      waiters |-> Append(st.waiters,
                    [socket |-> c, uuid |-> uuid, timer |-> "armed",
                     result |-> "pending"]),
      sent |-> socketSend(st.sent, c, getMessageJSON(identifier, data, uuid, FALSE))]

\* Promise.all over waiters that reject on timeout: one silent connection
\* keeps the aggregate pending
allSettled_All(b, ws) ==
  IF ~b.done /\ \A j \in 1..Len(b.promises) :
                  ws[b.promises[j]].result \notin {"pending", "undefined"}
  THEN [b EXCEPT !.done = TRUE,
                 !.resp = [j \in 1..Len(b.promises) |-> ws[b.promises[j]].result]]
  ELSE b

\* Promise.allSettled(promises) followed by the map over the settled entries
allSettled(b, ws) ==
  IF ~b.done /\ \A j \in 1..Len(b.promises) : ws[b.promises[j]].result # "pending"
  THEN [b EXCEPT !.done = TRUE,
                 !.resp = [j \in 1..Len(b.promises) |-> ws[b.promises[j]].result]]
  ELSE b

ResolveBroadcasts(bs, ws) == [k \in 1..Len(bs) |-> allSettled(bs[k], ws)]

\* what the stop operations read and write
StopState ==
  [status |-> status, stopCalls |-> stopCalls, closeEmitted |-> closeEmitted,
   wssState |-> wssState, listening |-> listening]

\* baseServer.close(cb) in the callback stop call i gave to wss.close: Node calls
\* cb with an error when the server is not listening
baseClose(ss, i) ==
  [ss EXCEPT !.stopCalls[i].signal = IF ss.listening THEN "resolved"
                                     ELSE "Server is not running.",
             !.listening = FALSE]

RECURSIVE runClosing(_, _)
runClosing(ss, i) ==
  IF i > Len(ss.stopCalls) THEN ss
  ELSE runClosing(IF ss.stopCalls[i].signal = "closing" THEN baseClose(ss, i) ELSE ss, i + 1)

\* ws emitClose: the server becomes CLOSED and emits 'close'; the listener of
\* ZilaServer sets _status, and the callbacks given to wss.close run
emitClose(ss) ==
  runClosing([ss EXCEPT !.wssState = "CLOSED", !.status = "CLOSED",
                        !.closeEmitted = @ + 1], 1)

\* ws WebSocketServer.close() without callback
wssClose(ss, hasClients) ==
  IF ss.wssState = "CLOSED" THEN emitClose(ss)
  ELSE IF ss.wssState = "CLOSING" THEN ss
  ELSE IF hasClients THEN [ss EXCEPT !.wssState = "CLOSING"]
  ELSE emitClose(ss)

\* stopServerAsync after its wait for the connections: wss.close(cb). On a
\* CLOSED server ws calls cb with the error 'The server is not running'.
continueStop(ss, i, hasClients) ==
  IF ss.wssState = "CLOSED"
  THEN emitClose([ss EXCEPT !.stopCalls[i].signal = "The server is not running"])
  ELSE IF ss.wssState = "RUNNING" /\ ~hasClients
  THEN emitClose([ss EXCEPT !.stopCalls[i].signal = "closing"])
  ELSE [ss EXCEPT !.wssState = "CLOSING", !.stopCalls[i].signal = "closing"]

\* the calls of stopServerAsync whose awaited connections have all closed go
\* on, in the order they were made; rs is the readyState after the close
RECURSIVE resumeStops(_, _, _, _)
resumeStops(ss, i, rs, hasClients) ==
  IF i > Len(ss.stopCalls) THEN ss
  ELSE resumeStops(IF /\ ss.stopCalls[i].signal = "pending"
                      /\ \A c \in ss.stopCalls[i].awaits : rs[c] = "CLOSED"
                   THEN continueStop(ss, i, hasClients) ELSE ss,
                   i + 1, rs, hasClients)

\* ----------------------------------------------------------- event listeners
\* a function passed to addEventListener, and the n-th wrapper function that
\* onceEventListener made around a callback
Listener(callback) == [callback |-> callback, once |-> FALSE, n |-> 0]
OnceListener(callback, n) == [callback |-> callback, once |-> TRUE, n |-> n]

\* this.serverEvents[eventType], undefined read as the empty list
listenersOf(evs, eventType) == IF eventType \in DOMAIN evs THEN evs[eventType] ELSE <<>>

\* arr.indexOf(callback), from 1; 0 when it is not in the list
indexOf(arr, cb) ==
  IF \E k \in 1..Len(arr) : arr[k] = cb
  THEN CHOOSE k \in 1..Len(arr) : arr[k] = cb /\ \A m \in 1..(k - 1) : arr[m] # cb
  ELSE 0

\* arr.splice(id, 1)
splice(arr, id) == [k \in 1..(Len(arr) - 1) |-> IF k < id THEN arr[k] ELSE arr[k + 1]]

\* addEventListener without the test for a callback that is already in the list
addEventListener_NoCheck(evs, eventType, cb) ==
  [serverEvents |-> [t \in DOMAIN evs \cup {eventType} |->
                       IF t = eventType THEN Append(listenersOf(evs, eventType), cb)
                       ELSE evs[t]],
   thrown |-> "none"]

\* ZilaServer.addEventListener: the list after the call and the error thrown
addEventListener(evs, eventType, cb) ==
  LET arr == listenersOf(evs, eventType)
  IN IF eventType \in DOMAIN evs /\ indexOf(arr, cb) # 0
     THEN [serverEvents |-> evs,
           thrown |-> "listener already has this callback added to it."]
     ELSE [serverEvents |-> [t \in DOMAIN evs \cup {eventType} |->
                               IF t = eventType THEN Append(arr, cb) ELSE evs[t]],
           thrown |-> "none"]

\* ZilaServer.removeEventListener
removeEventListener(evs, eventType, cb) ==
  LET arr == listenersOf(evs, eventType)
      id == indexOf(arr, cb)
  IN IF eventType \notin DOMAIN evs \/ id = 0 THEN evs
     ELSE IF Len(arr) = 1 THEN [t \in DOMAIN evs \ {eventType} |-> evs[t]]
     ELSE [evs EXCEPT ![eventType] = splice(arr, id)]

\* a once wrapper that calls its callback and stays registered
onceWrapper_StaysRegistered(ev, eventType, cb) ==
  [ev EXCEPT !.fired[cb.n].calls = @ + 1]

\* onceCallback of onceEventListener: it removes itself, then calls the callback
onceWrapper(ev, eventType, cb) ==
  [ev EXCEPT !.serverEvents = removeEventListener(@, eventType, cb),
             !.fired[cb.n].calls = @ + 1]

\* for (const cb of this.serverEvents[eventType]) cb(...): the loop is at
\* position i of the list, which the callbacks may change while it runs
RECURSIVE emitFrom(_, _, _)
emitFrom(ev, eventType, i) ==
  LET arr == listenersOf(ev.serverEvents, eventType)
  IN IF i > Len(arr) THEN ev
     ELSE LET cb == arr[i]
              called == IF cb.once THEN onceWrapper(ev, eventType, cb) ELSE ev
          IN emitFrom([called EXCEPT !.trace = Append(@, [event |-> eventType, listener |-> cb])],
                      eventType, i + 1)

emit(ev, eventType) == emitFrom(ev, eventType, 1)

\* the listeners and counters an event starts from; its trace starts empty
EventState == [serverEvents |-> serverEvents, trace |-> <<>>, fired |-> fired]

\* ------------------------------------------------------------ the wrappers
\* ServerWrapper field initialisers, before a subclass constructor has run
NoWrapper ==
  [kind |-> "none", strict |-> FALSE, status |-> "OPENING", listening |-> FALSE,
   wssState |-> "RUNNING", bannedIpsAndReasons |-> [a \in {} |-> "undefined"],
   closeCalls |-> <<>>, closeEmitted |-> 0]

\* reason ?? "The server has been stopped."
orDefault(reason) == IF reason = "undefined" THEN "The server has been stopped." ELSE reason

\* the connections the wrapper's clients getter returns: wss.clients of the
\* Node wrapper, connectedClients of the Bun wrapper
wrapperClients(ws) == {c \in 1..Len(ws) : ws[c].tracked}

\* ws WebSocket.close(code, reason) on a connection of the Node wrapper: an
\* OPEN socket writes the close frame and becomes CLOSING, any other does nothing
wsClose(sock, code, reason) ==
  IF sock.readyState = "OPEN"
  THEN [sock EXCEPT !.readyState = "CLOSING",
                    !.closeSent = [code |-> code, reason |-> reason]]
  ELSE sock

\* BunServerWrapper.handleClose for one connection
handleClose(sock) ==
  IF sock.tracked
  THEN [sock EXCEPT !.readyState = "CLOSED", !.tracked = FALSE, !.notified = @ + 1]
  ELSE [sock EXCEPT !.readyState = "CLOSED"]

\* Bun ServerWebSocket.close(code, reason): the close frame is written; the
\* runtime calls the close handler inside the call (sync) or as a later event
bunClose(sock, code, reason, sync) ==
  IF sock.readyState = "OPEN"
  THEN LET closing == [sock EXCEPT !.readyState = "CLOSING",
                                   !.closeSent = [code |-> code, reason |-> reason]]
       IN IF sync THEN handleClose(closing) ELSE closing
  ELSE sock

\* ------------------------------------------------------------------ state
Init ==
  /\ clients = <<>>
  /\ readyState = <<>>
  /\ callbacks = [x \in {} |-> UserHandler]
  /\ waiters = <<>>
  /\ broadcasts = <<>>
  /\ pending = <<>>
  /\ sent = <<>>
  /\ inbox = <<>>
  /\ ip = <<>>
  /\ closeSent = <<>>
  /\ bannedIpsAndReasons = [a \in {} |-> "undefined"]
  /\ hasrequested = FALSE
  /\ unhandled = FALSE
  /\ status = "OPEN"
  /\ stopCalls = <<>>
  /\ closeEmitted = 0
  /\ wssState = "RUNNING"
  /\ listening = TRUE
  /\ wrapper = NoWrapper
  /\ wsockets = <<>>
  /\ twin = [node |-> [wrapper |-> NoWrapper, wsockets |-> <<>>],
             bun |-> [wrapper |-> NoWrapper, wsockets |-> <<>>]]
  /\ response = 0
  /\ codec = [stage |-> "idle"]
  /\ serverEvents = [t \in {} |-> <<>>]
  /\ trace = <<>>
  /\ fired = <<>>
  /\ thrown = "none"

\* wss 'connection' listener: a ZilaClient is constructed and pushed to _clients
\* for a connect attempt from address addr
connectionListener(addr) ==
  /\ Len(clients) < MaxConns
  /\ listening
  /\ wssState = "RUNNING"
  /\ LET reason == IF addr \in DOMAIN bannedIpsAndReasons
                   THEN bannedIpsAndReasons[addr] ELSE "undefined"
         closes == ~hasrequested /\ truthy(reason)
     IN /\ readyState' = Append(readyState, IF closes THEN "CLOSING" ELSE "OPEN")
        /\ closeSent' = Append(closeSent, IF closes
                                          THEN [code |-> BANNED, reason |-> reason]
                                          ELSE NoClose)
  /\ clients' = Append(clients, Len(clients) + 1)
  /\ ip' = Append(ip, addr)
  /\ sent' = Append(sent, <<>>)
  /\ inbox' = Append(inbox, <<>>)
  /\ LET ev == emit(EventState, "onClientConnect")
     IN /\ serverEvents' = ev.serverEvents
        /\ trace' = ev.trace
        /\ fired' = ev.fired
  /\ UNCHANGED <<thrown, wrapVars, codec, callbacks, waiters, broadcasts, pending, banVars, unhandled, stopVars>>

\* a peer at the local address connects
Connection == connectionListener(LocalAddress) /\ UNCHANGED response

\* a peer at any address connects
Connect(addr) == connectionListener(addr) /\ UNCHANGED response

\* baseServer 'upgrade' listener: an upgrade request with the given Set-Cookie
\* and s-type headers arrives; ws answers 503 once the ws server is closing
Upgrade(addr, setCookie, sType) ==
  /\ listening
  /\ IF setCookie # "undefined" /\ sType = "1"
     THEN /\ response' = FORBIDDEN
          /\ UNCHANGED <<eventVars, clients, readyState, callbacks, waiters, broadcasts, pending, sent,
                         inbox, wireVars, banVars, unhandled, stopVars, wrapVars, codec>>
     ELSE IF wssState # "RUNNING"
     THEN /\ response' = 503
          /\ UNCHANGED <<eventVars, clients, readyState, callbacks, waiters, broadcasts, pending, sent,
                         inbox, wireVars, banVars, unhandled, stopVars, wrapVars, codec>>
     ELSE /\ response' = SWITCHING
          /\ connectionListener(addr)

\* socket 'close' listener: the peer closed the connection, or the closing
\* handshake the server started has completed
SocketClose(c) ==
  /\ c \in Sockets
  /\ readyState[c] # "CLOSED"
  /\ readyState' = [readyState EXCEPT ![c] = "CLOSED"]
  /\ inbox' = [inbox EXCEPT ![c] = <<>>]
  /\ LET ss1 == IF wssState = "CLOSING" /\ wssClients = {c}
                THEN emitClose(StopState) ELSE StopState
         ss == resumeStops(ss1, 1, [readyState EXCEPT ![c] = "CLOSED"],
                           wssClients \ {c} # {})
     IN /\ status' = ss.status
        /\ stopCalls' = ss.stopCalls
        /\ closeEmitted' = ss.closeEmitted
        /\ wssState' = ss.wssState
        /\ listening' = ss.listening
  /\ LET ev == emit(EventState, "onClientDisconnect")
     IN /\ serverEvents' = ev.serverEvents
        /\ trace' = ev.trace
        /\ fired' = ev.fired
  /\ UNCHANGED <<thrown, wrapVars, response, codec, clients, callbacks, waiters, broadcasts, pending, sent, wireVars, banVars, unhandled>>

\* ZilaServer.setMessageHandler(identifier, callback), called by the application
SetMessageHandler(identifier) ==
  /\ callbacks' = setMessageHandler(callbacks, identifier, UserHandler)
  /\ UNCHANGED <<eventVars, wrapVars, response, codec, clients, readyState, waiters, broadcasts, pending, sent, inbox, wireVars, banVars, unhandled, stopVars>>

\* ZilaServer.onceMessageHandler(identifier, callback), called by the application
OnceMessageHandler(identifier) ==
  /\ callbacks' = setMessageHandler(callbacks, identifier, OnceHandler)
  /\ UNCHANGED <<eventVars, wrapVars, response, codec, clients, readyState, waiters, broadcasts, pending, sent, inbox, wireVars, banVars, unhandled, stopVars>>

\* ZilaServer.removeMessageHandler(identifier), called by the application
RemoveMessageHandler(identifier) ==
  /\ identifier \in DOMAIN callbacks
  /\ callbacks' = removeMessageHandler(callbacks, identifier)
  /\ UNCHANGED <<eventVars, wrapVars, response, codec, clients, readyState, waiters, broadcasts, pending, sent, inbox, wireVars, banVars, unhandled, stopVars>>

\* frames of socket c that will each make the server write one reply
RepliesOwed(c) ==
  Len(SelectSeq(inbox[c], LAMBDA f : "callbackId" \in DOMAIN f /\ f.callbackId # "null"))
    + Len(SelectSeq(pending, LAMBDA p : p.socket = c /\ p.callbackId # "null"))

HasRoom(c) == Len(sent[c]) + RepliesOwed(c) < MaxSent

\* the peers draw a new callbackId for each request: cb is one no request has used
Fresh(cb) ==
  /\ \A c \in Sockets :
       /\ \A i \in 1..Len(inbox[c]) :
            "callbackId" \in DOMAIN inbox[c][i] => inbox[c][i].callbackId # cb
       /\ \A i \in 1..Len(sent[c]) : sent[c][i].identifier # cb
  /\ \A k \in 1..Len(pending) : pending[k].callbackId # cb

ServerState ==
  [callbacks |-> callbacks, waiters |-> waiters, pending |-> pending, sent |-> sent,
   unhandled |-> unhandled]

\* ZilaServer.waiter(socket, identifier, ...data)
Waiter(c, identifier, data) ==
  /\ c \in Sockets
  /\ Len(waiters) < MaxWaiters
  /\ LET st == waiter(ServerState, c, identifier, data)
     IN /\ callbacks' = st.callbacks
        /\ waiters' = st.waiters
        /\ sent' = st.sent
  /\ UNCHANGED <<eventVars, wrapVars, response, codec, clients, readyState, broadcasts, pending, inbox, wireVars, banVars, unhandled, stopVars>>

\* ZilaServer.waiterTimeout(socket, identifier, maxWaitingTime, ...data): the same
\* steps as waiter; only the delay given to setTimeout differs
WaiterTimeout(c, identifier, data) ==
  /\ c \in Sockets
  /\ Len(waiters) < MaxWaiters
  /\ LET st == waiter(ServerState, c, identifier, data)
     IN /\ callbacks' = st.callbacks
        /\ waiters' = st.waiters
        /\ sent' = st.sent
  /\ UNCHANGED <<eventVars, wrapVars, response, codec, clients, readyState, broadcasts, pending, inbox, wireVars, banVars, unhandled, stopVars>>

\* a timer callback that calls rej instead of _r: Promise.any ignores the
\* rejection while the handler promise is pending
timeoutCallback_Rejects(ws, w) == [ws EXCEPT ![w].timer = "fired"]

\* the callback given to setTimeout by waiter w
timeoutCallback(ws, w) ==
  [ws EXCEPT ![w].timer = "fired",
             ![w].result = PromiseAny(@, "undefined")]

\* the timer of waiter w expires
Timeout(w) ==
  /\ w \in 1..Len(waiters)
  /\ waiters[w].timer = "armed"
  /\ waiters' = timeoutCallback(waiters, w)
  /\ broadcasts' = ResolveBroadcasts(broadcasts, waiters')
  /\ UNCHANGED <<eventVars, wrapVars, response, codec, clients, readyState, callbacks, pending, sent, inbox, wireVars, banVars, unhandled, stopVars>>

\* a handler that calls r() without passing the reply on
waiterCallback_NoArgs(st, w, items) ==
  [st EXCEPT !.callbacks = [x \in (DOMAIN @) \ {st.waiters[w].uuid} |-> @[x]],
             !.waiters = [@ EXCEPT ![w].timer = IF @ = "armed" THEN "cleared" ELSE @,
                                   ![w].result = IF @ = "pending" THEN "undefined" ELSE @]]

\* the handler a waiter registered: (args) => { clearTimeout; removeMessageHandler; r(args) }
\* invoked through the wrapper of ZilaClient.setMessageHandler with the spread message
waiterCallback(st, w, items) ==
  LET args == IF Len(items) = 0 THEN "undefined" ELSE items[1]
  IN [st EXCEPT !.callbacks = removeMessageHandler(@, st.waiters[w].uuid),
                !.waiters = [@ EXCEPT ![w].timer = clearTimeout(@),
                                      ![w].result = PromiseAny(@, args)]]

\* a one-shot wrapper that forgets to unregister itself
onceCallback_KeepsRegistered(st, c, identifier, msgObj) ==
  [st EXCEPT !.pending = Append(@, [socket |-> c, callbackId |-> msgObj.callbackId,
                                    handler |-> "once"])]

\* the handler onceMessageHandler registers: it unregisters identifier, then
\* calls the callback
onceCallback(st, c, identifier, msgObj) ==
  [st EXCEPT !.callbacks = removeMessageHandler(@, identifier),
             !.pending = Append(@, [socket |-> c, callbackId |-> msgObj.callbackId,
                                    handler |-> "once"])]

\* a dispatcher that answers a request for a missing handler with undefined
onParsed_RepliesWhenMissing(st, c, msgObj) ==
  IF ~msgObj.marker \/ msgObj.message.isNull THEN st
  ELSE IF msgObj.identifier \notin DOMAIN st.callbacks
  THEN IF msgObj.callbackId # "null"
       THEN [st EXCEPT !.sent = send(@, c, msgObj.callbackId, <<"undefined">>)]
       ELSE st
  ELSE LET callback == st.callbacks[msgObj.identifier]
       IN IF callback.kind = "waiter"
          THEN waiterCallback(st, callback.w, msgObj.message.items)
          ELSE IF callback.kind = "once"
          THEN onceCallback(st, c, msgObj.identifier, msgObj)
          ELSE [st EXCEPT !.pending =
                  Append(@, [socket |-> c, callbackId |-> msgObj.callbackId,
                             handler |-> "user"])]

\* the .then callback of callMessageHandler: the dispatch of a parsed envelope
onParsed(st, c, msgObj) ==
  IF ~msgObj.marker
  THEN st  \* "inner event": only SyncCookies is looked at, and it changes no state here
  ELSE LET identifier == msgObj.identifier  \* identifier.slice(1)
       IN IF identifier \in DOMAIN st.callbacks /\ ~msgObj.message.isNull
          THEN LET callback == st.callbacks[identifier]
               IN IF callback.kind = "waiter"
                  THEN LET st2 == waiterCallback(st, callback.w, msgObj.message.items)
                       IN \* the wrapper returns undefined at once: the reply is
                          \* written in the same task
                          IF msgObj.callbackId # "null"
                          THEN [st2 EXCEPT !.sent = send(@, c, msgObj.callbackId, <<"undefined">>)]
                          ELSE st2
                  ELSE IF callback.kind = "once"
                  THEN onceCallback(st, c, identifier, msgObj)
                  ELSE [st EXCEPT !.pending =
                          Append(@, [socket |-> c, callbackId |-> msgObj.callbackId,
                                     handler |-> "user"])]
          ELSE st

\* ZilaServer.callMessageHandler(socket, req, msg): JSON.parse inside a promise
\* whose .then callback dispatches. A parse error is caught and logged; a value
\* without identifier makes the .then callback throw, and nothing handles the
\* rejected promise.
callMessageHandler(st, c, msg) ==
  LET parsed == JSONparse(msg)
  IN IF parsed.threw THEN st
     ELSE IF ~parsed.hasIdentifier THEN [st EXCEPT !.unhandled = TRUE]
     ELSE onParsed(st, c, parsed.value)

\* the observers callMessageHandler calls for a parsed envelope that is not an
\* inner event, before it looks the handler up
observe(ev, msgObj) ==
  emit(emit(ev, "onClientRawMessageBeforeCallback"), "onClientMessageBeforeCallback")

\* the functions of the application that the 'message' listener and
\* callMessageHandler call for the text msg, in the order of the calls; the
\* last entry is the handler when one the application registered is called
notify(ev, st, msg) ==
  LET parsed == JSONparse(msg)
      heard == emit(ev, "onClientRawMessageBeforeCallback")
  IN IF parsed.threw \/ ~parsed.hasIdentifier \/ ~parsed.value.marker THEN heard
     ELSE LET msgObj == parsed.value
              seen == observe(heard, msgObj)
          IN IF /\ msgObj.identifier \in DOMAIN st.callbacks
                /\ ~msgObj.message.isNull
                /\ st.callbacks[msgObj.identifier].kind # "waiter"
             THEN [seen EXCEPT !.trace = Append(@, [event |-> "callback",
                                                    listener |-> Listener(msgObj.identifier)])]
             ELSE seen

\* socket 'message' listener of connection c
Deliver(c) ==
  /\ c \in Sockets
  /\ readyState[c] # "CLOSED"
  /\ inbox[c] # <<>>
  /\ LET st == callMessageHandler(ServerState, c, Head(inbox[c]))
         ev == notify(EventState, ServerState, Head(inbox[c]))
     IN /\ callbacks' = st.callbacks
        /\ unhandled' = st.unhandled
        /\ waiters' = st.waiters
        /\ pending' = st.pending
        /\ sent' = st.sent
        /\ serverEvents' = ev.serverEvents
        /\ trace' = ev.trace
        /\ fired' = ev.fired
  /\ inbox' = [inbox EXCEPT ![c] = Tail(@)]
  /\ broadcasts' = ResolveBroadcasts(broadcasts, waiters')
  /\ UNCHANGED <<thrown, wrapVars, response, codec, clients, readyState, wireVars, banVars, stopVars>>

\* a completion that reads the callbackId of the latest request, not of its own
HandlerReturn_LastCallbackId(k, val) ==
  /\ k \in 1..Len(pending)
  /\ sent' = IF pending[Len(pending)].callbackId # "null"
             THEN send(sent, pending[k].socket, pending[Len(pending)].callbackId, <<val>>)
             ELSE sent
  /\ pending' = SubSeq(pending, 1, k - 1) \o SubSeq(pending, k + 1, Len(pending))
  /\ UNCHANGED <<eventVars, wrapVars, response, codec, clients, readyState, callbacks, waiters, broadcasts, inbox, wireVars,
                 banVars, unhandled, stopVars>>

\* a user handler returns val (or the promise it returned resolves to val):
\* .then((val) => { if (msgObj.callbackId) this.send(socket, msgObj.callbackId, val) })
HandlerReturn(k, val) ==
  /\ k \in 1..Len(pending)
  /\ sent' = IF pending[k].callbackId # "null"
             THEN send(sent, pending[k].socket, pending[k].callbackId, <<val>>)
             ELSE sent
  /\ pending' = SubSeq(pending, 1, k - 1) \o SubSeq(pending, k + 1, Len(pending))
  /\ UNCHANGED <<eventVars, wrapVars, response, codec, clients, readyState, callbacks, waiters, broadcasts, inbox, wireVars, banVars, unhandled, stopVars>>

\* a user handler throws, or the promise it returned rejects: the .then
\* callback that would send the reply never runs, and the promise that
\* Promise.resolve(callback(...)).then(...) yields (for a throw, the promise of
\* the outer .then) is rejected with nothing attached to it
HandlerThrow(k) ==
  /\ k \in 1..Len(pending)
  /\ unhandled' = TRUE
  /\ pending' = SubSeq(pending, 1, k - 1) \o SubSeq(pending, k + 1, Len(pending))
  /\ UNCHANGED <<eventVars, wrapVars, response, codec, clients, readyState, callbacks, waiters,
                 broadcasts, sent, inbox, wireVars, banVars, stopVars>>

\* a broadcast that stops after the first connection
BroadcastSend_FirstOnly(identifier, data) ==
  /\ \A c \in Sockets : Len(sent[c]) < MaxSent
  /\ sent' = [c \in Sockets |->
                IF c = 1 /\ readyState[c] = "OPEN"
                THEN Append(sent[c], [marker |-> FALSE, identifier |-> identifier,
                                      message |-> [isNull |-> FALSE, items |-> data],
                                      callbackId |-> "null"])
                ELSE sent[c]]
  /\ UNCHANGED <<eventVars, wrapVars, response, codec, clients, readyState, callbacks, waiters, broadcasts, pending, inbox, wireVars, banVars, unhandled, stopVars>>

\* ZilaServer.broadcastSend(identifier, ...data)
BroadcastSend(identifier, data) ==
  /\ \A c \in Sockets : HasRoom(c)
  /\ LET msg == [marker |-> FALSE, identifier |-> identifier,
                 message |-> data, callbackId |-> "null"]
     IN sent' = [c \in Sockets |->
                   IF c \in wssClients THEN socketSend(sent, c, JSONstringify(msg))[c]
                   ELSE sent[c]]
  /\ UNCHANGED <<eventVars, wrapVars, response, codec, clients, readyState, callbacks, waiters, broadcasts, pending, inbox, wireVars, banVars, unhandled, stopVars>>

\* for (const socket of this._clients) promises.push(socket.waiter(identifier, ...data))
RECURSIVE waiterAll(_, _, _, _)
waiterAll(st, k, identifier, data) ==
  IF k > Len(clients) THEN st
  ELSE waiterAll(waiter(st, clients[k], identifier, data) @@ st, k + 1, identifier, data)

\* ZilaServer.broadcastWaiter(identifier, ...data)
broadcastWaiter(identifier, data) ==
  /\ Len(broadcasts) < MaxBroadcasts
  /\ Len(waiters) + Len(clients) <= MaxWaiters
  /\ LET st == waiterAll(ServerState, 1, identifier, data)
         promises == [j \in 1..Len(clients) |-> Len(waiters) + j]
     IN /\ callbacks' = st.callbacks
        /\ waiters' = st.waiters
        /\ sent' = st.sent
        /\ broadcasts' = ResolveBroadcasts(
             Append(broadcasts, [promises |-> promises, done |-> FALSE, resp |-> <<>>]),
             waiters')
  /\ UNCHANGED <<eventVars, wrapVars, response, codec, clients, readyState, pending, inbox, wireVars, banVars, unhandled, stopVars>>

BroadcastWaiter(identifier, data) == broadcastWaiter(identifier, data)

\* ZilaServer.broadcastWaiterTimeout(identifier, maxWaitingTime, ...data)
BroadcastWaiterTimeout(identifier, data) == broadcastWaiter(identifier, data)

\* ws WebSocket.close(code, reason): an OPEN socket writes the close frame and
\* becomes CLOSING; on any other socket the call writes nothing
closeReadyState(rs, c) == IF rs[c] = "OPEN" THEN [rs EXCEPT ![c] = "CLOSING"] ELSE rs

closeFrame(cs, c, code, reason) ==
  IF readyState[c] = "OPEN" THEN [cs EXCEPT ![c] = [code |-> code, reason |-> reason]] ELSE cs

\* Map.set(key, value)
mapSet(map, key, value) ==
  [x \in (DOMAIN map) \cup {key} |-> IF x = key THEN value ELSE map[x]]

\* ZilaServer.banClient(socket, reason)
\* kickClient written like banClient: the address is recorded as well
KickClient_Bans(c, reason) ==
  /\ c \in Sockets
  /\ readyState' = closeReadyState(readyState, c)
  /\ closeSent' = closeFrame(closeSent, c, KICKED, reason)
  /\ bannedIpsAndReasons' = mapSet(bannedIpsAndReasons, ip[c], reason)
  /\ UNCHANGED <<eventVars, wrapVars, response, codec, clients, callbacks, waiters, broadcasts, pending, sent, inbox, ip,
                 hasrequested, unhandled, stopVars>>

\* ZilaServer.kickClient(socket, reason)
KickClient(c, reason) ==
  /\ c \in Sockets
  /\ readyState' = closeReadyState(readyState, c)
  /\ closeSent' = closeFrame(closeSent, c, KICKED, reason)
  /\ UNCHANGED <<eventVars, wrapVars, response, codec, clients, callbacks, waiters, broadcasts, pending, sent, inbox, ip,
                 banVars, unhandled, stopVars>>

BanClient(c, reason) ==
  /\ c \in Sockets
  /\ readyState' = closeReadyState(readyState, c)
  /\ closeSent' = closeFrame(closeSent, c, BANNED, reason)
  /\ bannedIpsAndReasons' = IF truthy(ip[c])
                            THEN mapSet(bannedIpsAndReasons, ip[c], reason)
                            ELSE bannedIpsAndReasons
  /\ UNCHANGED <<eventVars, wrapVars, response, codec, clients, callbacks, waiters, broadcasts, pending, sent, inbox, ip,
                 hasrequested, unhandled, stopVars>>

\* baseServer 'request' listener: a plain HTTP request arrives
HttpRequest ==
  /\ listening
  /\ hasrequested' = TRUE
  /\ UNCHANGED <<eventVars, wrapVars, response, codec, clients, readyState, callbacks, waiters, broadcasts, pending, sent, inbox,
                 wireVars, bannedIpsAndReasons, unhandled, stopVars>>

\* ZilaServer.stopServer(): this.wss.close(); this.baseServer.close()
StopServer ==
  /\ Len(stopCalls) < MaxStops
  /\ LET call == [op |-> "stopServer", closedAtCall |-> status = "CLOSED",
                  signal |-> "none", awaits |-> {}]
         ss == wssClose([StopState EXCEPT !.stopCalls = Append(@, call),
                                          !.listening = FALSE],
                        wssClients # {})
     IN /\ status' = ss.status
        /\ stopCalls' = ss.stopCalls
        /\ closeEmitted' = ss.closeEmitted
        /\ wssState' = ss.wssState
        /\ listening' = ss.listening
  /\ UNCHANGED <<eventVars, wrapVars, response, codec, clients, readyState, callbacks, waiters, broadcasts, pending, sent, inbox,
                 wireVars, banVars, unhandled>>

\* ZilaServer.stopServerAsync(reason) up to its await: every connection of
\* wss.clients is closed with NORMAL and awaited; with no connection to await
\* the call goes on at once
StopServerAsync(reason) ==
  /\ Len(stopCalls) < MaxStops
  /\ readyState' = [c \in Sockets |-> closeReadyState(readyState, c)[c]]
  /\ closeSent' = [c \in Sockets |-> closeFrame(closeSent, c, NORMAL, reason)[c]]
  /\ LET call == [op |-> "stopServerAsync", closedAtCall |-> status = "CLOSED",
                  signal |-> "pending", awaits |-> wssClients]
         ss0 == [StopState EXCEPT !.stopCalls = Append(@, call)]
         ss == IF wssClients = {} THEN continueStop(ss0, Len(ss0.stopCalls), FALSE) ELSE ss0
     IN /\ status' = ss.status
        /\ stopCalls' = ss.stopCalls
        /\ closeEmitted' = ss.closeEmitted
        /\ wssState' = ss.wssState
        /\ listening' = ss.listening
  /\ UNCHANGED <<eventVars, wrapVars, response, codec, clients, callbacks, waiters, broadcasts, pending, sent, inbox, ip,
                 banVars, unhandled>>

\* the number of listeners in all the lists
RECURSIVE listenerCount(_, _)
listenerCount(evs, types) ==
  IF types = {} THEN 0
  ELSE LET t == CHOOSE x \in types : TRUE
       IN Len(evs[t]) + listenerCount(evs, types \ {t})

\* ZilaServer.addEventListener(eventType, callback), called by the application
AddEventListener(eventType, callback) ==
  /\ \/ listenerCount(serverEvents, DOMAIN serverEvents) < MaxListeners
     \/ indexOf(listenersOf(serverEvents, eventType), Listener(callback)) # 0
  /\ LET r == addEventListener(serverEvents, eventType, Listener(callback))
     IN /\ serverEvents' = r.serverEvents
        /\ thrown' = r.thrown
  /\ UNCHANGED <<clients, readyState, callbacks, waiters, broadcasts, pending, sent, inbox,
                 wireVars, banVars, unhandled, stopVars, wrapVars, response, codec,
                 trace, fired>>

\* ZilaServer.removeEventListener(eventType, callback)
RemoveEventListener(eventType, callback) ==
  /\ serverEvents' = removeEventListener(serverEvents, eventType, Listener(callback))
  /\ UNCHANGED <<clients, readyState, callbacks, waiters, broadcasts, pending, sent, inbox,
                 wireVars, banVars, unhandled, stopVars, wrapVars, response, codec,
                 trace, fired, thrown>>

\* ZilaServer.onceEventListener(eventType, callback): a new wrapper function
\* is made and added
OnceEventListener(eventType, callback) ==
  /\ listenerCount(serverEvents, DOMAIN serverEvents) < MaxListeners
  /\ Len(fired) < MaxOnce
  /\ LET r == addEventListener(serverEvents, eventType,
                                OnceListener(callback, Len(fired) + 1))
     IN /\ serverEvents' = r.serverEvents
        /\ thrown' = r.thrown
  /\ fired' = Append(fired, [event |-> eventType, callback |-> callback, calls |-> 0])
  /\ UNCHANGED <<clients, readyState, callbacks, waiters, broadcasts, pending, sent, inbox,
                 wireVars, banVars, unhandled, stopVars, wrapVars, response, codec, trace>>

\* ------------------------------------------------- the wrappers' operations
\* new NodeServerWrapper(settings, baseWssOptions)
NodeServerWrapper(strict) ==
  /\ wrapper.kind = "none"
  /\ wrapper' = [wrapper EXCEPT !.kind = "node", !.strict = strict,
                                !.listening = TRUE, !.status = "OPEN"]
  /\ UNCHANGED <<eventVars, clients, readyState, callbacks, waiters, broadcasts, pending, sent, inbox,
                 wireVars, banVars, unhandled, stopVars, wsockets, twin, response, codec>>

\* the constructor without the assignment of WSStatus.OPEN
BunServerWrapper_StaysOpening(strict, throws) ==
  /\ wrapper.kind = "none"
  /\ wrapper' = IF throws
                THEN [wrapper EXCEPT !.kind = "bun", !.strict = strict, !.status = "ERROR"]
                ELSE [wrapper EXCEPT !.kind = "bun", !.strict = strict, !.listening = TRUE]
  /\ UNCHANGED <<eventVars, clients, readyState, callbacks, waiters, broadcasts, pending, sent, inbox,
                 wireVars, banVars, unhandled, stopVars, wsockets, twin, response, codec>>

\* new BunServerWrapper(settings, baseWssOptions); throws: Bun.serve throws
BunServerWrapper(strict, throws) ==
  /\ wrapper.kind = "none"
  /\ wrapper' = IF throws
                THEN [wrapper EXCEPT !.kind = "bun", !.strict = strict, !.status = "ERROR"]
                ELSE [wrapper EXCEPT !.kind = "bun", !.strict = strict,
                                     !.listening = TRUE, !.status = "OPEN"]
  /\ UNCHANGED <<eventVars, clients, readyState, callbacks, waiters, broadcasts, pending, sent, inbox,
                 wireVars, banVars, unhandled, stopVars, wsockets, twin, response, codec>>

\* ServerWrapper.setServerWrapper(map)
SetServerWrapper(map) ==
  /\ wrapper.status = "OPEN"
  /\ wrapper' = [wrapper EXCEPT !.bannedIpsAndReasons = map]
  /\ UNCHANGED <<eventVars, clients, readyState, callbacks, waiters, broadcasts, pending, sent, inbox,
                 wireVars, banVars, unhandled, stopVars, wsockets, twin, response, codec>>

\* a connection the transport has just accepted
NewSocket(addr) ==
  [address |-> addr, readyState |-> "OPEN", closeSent |-> NoClose,
   tracked |-> TRUE, notified |-> 0]

\* NodeServerWrapper: baseServer 'upgrade' listener
nodeUpgradeOn(ws, addr, setCookie, sType) ==
  IF setCookie # "undefined" /\ sType = "1"
  THEN [response |-> FORBIDDEN, wsockets |-> ws]
  ELSE [response |-> SWITCHING, wsockets |-> Append(ws, NewSocket(addr))]

nodeUpgrade(addr, setCookie, sType) == nodeUpgradeOn(wsockets, addr, setCookie, sType)

\* BunServerWrapper.handleFetch for an upgrade request, and handleOpen
handleFetchOn(w, ws, addr, setCookie, sType) ==
  LET map == w.bannedIpsAndReasons
      banReason == IF addr \in DOMAIN map THEN map[addr] ELSE "undefined"
  IN IF w.strict /\ banReason # "undefined"
     THEN [response |-> FORBIDDEN, wsockets |-> ws]
     ELSE IF truthy(setCookie) /\ sType = "1"
     THEN [response |-> FORBIDDEN, wsockets |-> ws]
     ELSE [response |-> SWITCHING, wsockets |-> Append(ws, NewSocket(addr))]

handleFetch(addr, setCookie, sType) == handleFetchOn(wrapper, wsockets, addr, setCookie, sType)

\* an upgrade request reaches the wrapper's transport
WrapperUpgrade(addr, setCookie, sType) ==
  /\ wrapper.listening
  /\ Len(wsockets) < MaxConns
  /\ LET r == IF wrapper.kind = "node" THEN nodeUpgrade(addr, setCookie, sType)
              ELSE handleFetch(addr, setCookie, sType)
     IN /\ response' = r.response
        /\ wsockets' = r.wsockets
  /\ UNCHANGED <<eventVars, clients, readyState, callbacks, waiters, broadcasts, pending, sent, inbox,
                 wireVars, banVars, unhandled, stopVars, wrapper, twin, codec>>

\* the ws 'close' event of a connection of the Node wrapper: ws drops it from
\* wss.clients and the listeners on the connection are notified
nodeSocketClose(sock) ==
  [sock EXCEPT !.readyState = "CLOSED", !.tracked = FALSE, !.notified = @ + 1]

\* closeAsync of the Node wrapper settles when wss.close and baseServer.close
\* have both called back: every connection has ended
settleCloseAsync(calls, ws) ==
  [i \in 1..Len(calls) |->
     IF calls[i].signal = "pending" /\ \A c \in 1..Len(ws) : ws[c].readyState = "CLOSED"
     THEN [calls[i] EXCEPT !.signal = "resolved"] ELSE calls[i]]

\* the wrapper w with the connections ws after the transport has reported
\* that connection c has closed
socketClosed(w, ws, c) ==
  LET ws2 == [ws EXCEPT ![c] = IF w.kind = "node" THEN nodeSocketClose(@)
                               ELSE handleClose(@)]
      emits == w.kind = "node" /\ w.wssState = "CLOSING" /\ wrapperClients(ws2) = {}
  IN [wsockets |-> ws2,
      wrapper |-> [w EXCEPT
         !.wssState = IF emits THEN "CLOSED" ELSE @,
         !.closeEmitted = IF emits THEN @ + 1 ELSE @,
         !.closeCalls = IF w.kind = "node" THEN settleCloseAsync(@, ws2) ELSE @]]

\* the transport reports that connection c has closed
WrapperSocketClose(c) ==
  /\ c \in 1..Len(wsockets)
  /\ wsockets[c].readyState # "CLOSED"
  /\ wrapper.kind \in {"node", "bun"}
  /\ LET r == socketClosed(wrapper, wsockets, c)
     IN /\ wsockets' = r.wsockets
        /\ wrapper' = r.wrapper
  /\ UNCHANGED <<eventVars, clients, readyState, callbacks, waiters, broadcasts, pending, sent, inbox,
                 wireVars, banVars, unhandled, stopVars, twin, response, codec>>

\* the guard of close and closeAsync
notRunning(w) == w.status \in {"CLOSED", "ERROR"}

CloseCallOn(w, ws, op, signal) ==
  [op |-> op, signal |-> signal, closedAtCall |-> notRunning(w),
   awaits |-> {c \in 1..Len(ws) : ws[c].readyState = "OPEN"}]

CloseCall(op, signal) == CloseCallOn(wrapper, wsockets, op, signal)

\* NodeServerWrapper.close and closeAsync up to the await
nodeCloseOn(w, wss, op, reason) ==
  LET ws == [c \in 1..Len(wss) |->
               IF wss[c].tracked THEN wsClose(wss[c], NORMAL, orDefault(reason))
               ELSE wss[c]]
      idle == wrapperClients(ws) = {}
      call == CloseCallOn(w, wss, op, IF op = "close" THEN "returned" ELSE "pending")
  IN [wsockets |-> ws,
      wrapper |-> [w EXCEPT
         !.status = "CLOSED",
         !.wssState = IF idle THEN "CLOSED" ELSE "CLOSING",
         !.closeEmitted = IF idle THEN @ + 1 ELSE @,
         !.listening = FALSE,
         !.closeCalls = settleCloseAsync(Append(@, call), ws)]]

nodeClose(op, reason) == nodeCloseOn(wrapper, wsockets, op, reason)

\* BunServerWrapper.close and closeAsync
\* a shutdown that empties connectedClients without closing the connections
bunCloseAllOn_ClearsOnly(w, wss, op, reason, sync) ==
  [wsockets |-> [c \in 1..Len(wss) |-> [wss[c] EXCEPT !.tracked = FALSE]],
   wrapper |-> [w EXCEPT
      !.status = "CLOSED",
      !.listening = FALSE,
      !.closeEmitted = @ + 1,
      !.closeCalls = Append(@, CloseCallOn(w, wss, op, IF op = "close" THEN "returned"
                                                       ELSE "resolved"))]]

bunCloseAllOn(w, wss, op, reason, sync) ==
  LET ws == [c \in 1..Len(wss) |->
               LET sock == IF wss[c].tracked
                           THEN bunClose(wss[c], NORMAL, orDefault(reason), sync)
                           ELSE wss[c]
               IN [sock EXCEPT !.tracked = FALSE]]
      call == CloseCallOn(w, wss, op, IF op = "close" THEN "returned" ELSE "resolved")
  IN [wsockets |-> ws,
      wrapper |-> [w EXCEPT
         !.status = "CLOSED",
         !.listening = FALSE,
         !.closeEmitted = @ + 1,
         !.closeCalls = Append(@, call)]]

bunCloseAll(op, reason, sync) == bunCloseAllOn(wrapper, wsockets, op, reason, sync)

\* close(reason) and closeAsync(reason) of wrapper w with the connections ws:
\* the guard throws on a wrapper that is not running
closeOn(w, ws, op, reason, sync) ==
  IF notRunning(w)
  THEN [wsockets |-> ws,
        wrapper |-> [w EXCEPT !.closeCalls =
           Append(@, CloseCallOn(w, ws, op, "The server is not running"))]]
  ELSE IF w.kind = "node" THEN nodeCloseOn(w, ws, op, reason)
  ELSE bunCloseAllOn(w, ws, op, reason, sync)

\* close(reason) and closeAsync(reason) of the wrapper
wrapperClose(op, reason, sync) ==
  /\ wrapper.kind \in {"node", "bun"}
  /\ wrapper.status # "ERROR"
  /\ Len(wrapper.closeCalls) < MaxStops
  /\ LET r == closeOn(wrapper, wsockets, op, reason, sync)
     IN /\ wsockets' = r.wsockets
        /\ wrapper' = r.wrapper
  /\ UNCHANGED <<eventVars, clients, readyState, callbacks, waiters, broadcasts, pending, sent, inbox,
                 wireVars, banVars, unhandled, stopVars, twin, response, codec>>

WrapperClose(reason, sync) == wrapperClose("close", reason, sync)

WrapperCloseAsync(reason, sync) == wrapperClose("closeAsync", reason, sync)

\* ------------------------------------------------------------- the codec
\* the lists of at most n payload values
RECURSIVE Lists(_)
Lists(n) ==
  IF n = 0 THEN {<<>>}
  ELSE Lists(n - 1) \cup {Append(s, v) : s \in {t \in Lists(n - 1) : Len(t) = n - 1},
                                           v \in PayloadValues}

\* the envelopes the send operations build
Envelopes ==
  [marker : BOOLEAN, identifier : UserIds \cup PeerHandlers,
   message : {JNull} \cup {JArr(s) : s \in Lists(MaxItems)},
   callbackId : {"null", "pcb"}]

\* an envelope is encoded for the wire
Encode(env) ==
  /\ codec' = [stage |-> "encoded", envelope |-> env, wire |-> encode(env)]
  /\ UNCHANGED <<eventVars, clients, readyState, callbacks, waiters, broadcasts, pending, sent, inbox,
                 wireVars, banVars, unhandled, stopVars, wrapVars, response>>

\* the receiver parses the text
Decode ==
  /\ codec.stage = "encoded"
  /\ codec' = [stage |-> "decoded", envelope |-> codec.envelope, wire |-> codec.wire,
               decoded |-> JSONparse(codec.wire)]
  /\ UNCHANGED <<eventVars, clients, readyState, callbacks, waiters, broadcasts, pending, sent, inbox,
                 wireVars, banVars, unhandled, stopVars, wrapVars, response>>

\* ------------------------------------------------------------- the peers
\* The peer at the other end of connection c is not part of the server. It may
\* answer a request it received if it has a handler for the request's identifier,
\* and it may send requests of its own.

\* the peer's handler for a request returned val: the peer writes the reply frame
PeerReply(c, k, val) ==
  /\ c \in Sockets
  /\ readyState[c] = "OPEN"
  /\ InFlight < MaxInFlight
  /\ k \in 1..Len(sent[c])
  /\ sent[c][k].callbackId # "null"
  /\ sent[c][k].identifier \in PeerHandlers
  /\ inbox' = [inbox EXCEPT ![c] = Append(@,
                 [marker |-> TRUE, identifier |-> sent[c][k].callbackId,
                  message |-> JArr(<<val>>), callbackId |-> "null"])]
  /\ UNCHANGED <<eventVars, wrapVars, response, codec, clients, readyState, callbacks, waiters, broadcasts, pending, sent, wireVars, banVars, unhandled, stopVars>>

\* the peer sends a frame of its own
PeerSend(c, frame) ==
  /\ c \in Sockets
  /\ readyState[c] = "OPEN"
  /\ InFlight < MaxInFlight
  /\ InFlight + Len(pending) < MaxPending
  /\ frame.callbackId # "null" => Fresh(frame.callbackId)
  /\ inbox' = [inbox EXCEPT ![c] = Append(@, frame)]
  /\ UNCHANGED <<eventVars, wrapVars, response, codec, clients, readyState, callbacks, waiters, broadcasts, pending, sent, wireVars, banVars, unhandled, stopVars>>

\* the peer sends a text that is not an envelope
PeerSendRaw(c, text) ==
  /\ c \in Sockets
  /\ readyState[c] = "OPEN"
  /\ InFlight < MaxInFlight
  /\ inbox' = [inbox EXCEPT ![c] = Append(@, text)]
  /\ UNCHANGED <<eventVars, wrapVars, response, codec, clients, readyState, callbacks, waiters, broadcasts, pending, sent, wireVars, banVars, unhandled, stopVars>>

\* closeAsync(reason) called twice in a row by one task of the application,
\* on wrapper w with the connections ws. The Node wrapper sets its status before
\* it awaits, so the second call meets the guard. The Bun wrapper sets it after
\* `await Promise.all(closePromises)`: the second call passes the guard, and
\* when it goes on after the first, this.server is `{}` and this.server.stop()
\* throws a TypeError.
closeAsyncTwiceOn(w, ws, reason, sync) ==
  LET first == closeOn(w, ws, "closeAsync", reason, sync)
  IN IF notRunning(w) \/ w.kind = "node"
     THEN closeOn(first.wrapper, first.wsockets, "closeAsync", reason, sync)
     ELSE [first EXCEPT !.wrapper.closeCalls =
             Append(@, CloseCallOn(w, ws, "closeAsync",
                                   "this.server.stop is not a function"))]

\* the application calls closeAsync(reason) and, without awaiting it,
\* closeAsync(reason) again
WrapperCloseAsyncTwice(reason, sync) ==
  /\ wrapper.kind \in {"node", "bun"}
  /\ wrapper.status # "ERROR"
  /\ Len(wrapper.closeCalls) + 1 < MaxStops
  /\ LET r == closeAsyncTwiceOn(wrapper, wsockets, reason, sync)
     IN /\ wsockets' = r.wsockets
        /\ wrapper' = r.wrapper
  /\ UNCHANGED <<eventVars, clients, readyState, callbacks, waiters, broadcasts, pending, sent, inbox,
                 wireVars, banVars, unhandled, stopVars, twin, response, codec>>

\* ------------------------------------- two wrappers, the same operations
\* what is left alone by the operations on the pair of wrappers
twinFrame ==
  UNCHANGED <<eventVars, clients, readyState, callbacks, waiters, broadcasts, pending, sent,
              inbox, wireVars, banVars, unhandled, stopVars, wrapper, wsockets, response, codec>>

\* new NodeServerWrapper(settings, wssOptions) and new BunServerWrapper(settings,
\* wssOptions) with the same settings
TwinStart ==
  /\ twin.node.wrapper.kind = "none"
  /\ twin' = [node |-> [twin.node EXCEPT !.wrapper.kind = "node",
                                          !.wrapper.listening = TRUE,
                                          !.wrapper.status = "OPEN"],
              bun |-> [twin.bun EXCEPT !.wrapper.kind = "bun",
                                        !.wrapper.listening = TRUE,
                                        !.wrapper.status = "OPEN"]]
  /\ twinFrame

\* a peer at addr asks each wrapper that listens for an upgrade
TwinUpgrade(addr) ==
  /\ twin.node.wrapper.listening \/ twin.bun.wrapper.listening
  /\ Len(twin.node.wsockets) < MaxConns
  /\ Len(twin.bun.wsockets) < MaxConns
  /\ twin' = [node |-> IF twin.node.wrapper.listening
                       THEN [twin.node EXCEPT !.wsockets =
                               nodeUpgradeOn(@, addr, "undefined", "undefined").wsockets]
                       ELSE twin.node,
              bun |-> IF twin.bun.wrapper.listening
                      THEN [twin.bun EXCEPT !.wsockets =
                              handleFetchOn(twin.bun.wrapper, @, addr,
                                            "undefined", "undefined").wsockets]
                      ELSE twin.bun]
  /\ twinFrame

\* connection c of side has not closed yet
twinLive(side, c) == c \in 1..Len(side.wsockets) /\ side.wsockets[c].readyState # "CLOSED"

\* the peer of connection c closes it, or ends the closing handshake, at each
\* wrapper where the connection has not closed
TwinSocketClose(c) ==
  /\ twinLive(twin.node, c) \/ twinLive(twin.bun, c)
  /\ twin' = [node |-> IF twinLive(twin.node, c)
                       THEN socketClosed(twin.node.wrapper, twin.node.wsockets, c)
                       ELSE twin.node,
              bun |-> IF twinLive(twin.bun, c)
                      THEN socketClosed(twin.bun.wrapper, twin.bun.wsockets, c)
                      ELSE twin.bun]
  /\ twinFrame

\* close(reason) or closeAsync(reason) is called on both wrappers
twinClose(op, reason, sync) ==
  /\ twin.node.wrapper.kind = "node"
  /\ Len(twin.node.wrapper.closeCalls) < MaxStops
  /\ twin' = [node |-> closeOn(twin.node.wrapper, twin.node.wsockets, op, reason, sync),
              bun |-> closeOn(twin.bun.wrapper, twin.bun.wsockets, op, reason, sync)]
  /\ twinFrame

TwinClose(reason, sync) == twinClose("close", reason, sync)

TwinCloseAsync(reason, sync) == twinClose("closeAsync", reason, sync)

\* ------------------------------------------------------ specifications
\* The waiter protocol: single waiters, their timers and the peers' replies.
Next ==
  \/ Connection
  \/ \E c \in Sockets : SocketClose(c)
  \/ \E id \in UserIds : SetMessageHandler(id)
  \/ \E id \in UserIds : RemoveMessageHandler(id)
  \/ \E c \in Sockets, id \in WaiterIds, data \in DataSet : Waiter(c, id, data)
  \/ \E c \in Sockets, id \in WaiterIds, data \in DataSet : WaiterTimeout(c, id, data)
  \/ \E w \in 1..Len(waiters) : Timeout(w)
  \/ \E c \in Sockets : Deliver(c)
  \/ \E c \in Sockets, k \in 1..MaxWaiters, val \in Values : PeerReply(c, k, val)

Spec == Init /\ [][Next]_vars

\* The steps that bear on whether a waiter settles: the handlers the
\* application registers under its own identifiers are left out, and the peers
\* reply with one value.
NextSettle ==
  \/ Connection
  \/ \E c \in Sockets : SocketClose(c)
  \/ \E c \in Sockets, id \in WaiterIds, data \in DataSet : Waiter(c, id, data)
  \/ \E c \in Sockets, id \in WaiterIds, data \in DataSet : WaiterTimeout(c, id, data)
  \/ \E w \in 1..Len(waiters) : Timeout(w)
  \/ \E c \in Sockets : Deliver(c)
  \/ \E c \in Sockets, k \in 1..MaxWaiters : PeerReply(c, k, "v1")

\* Node runs the callback of every timer that is still armed.
FairSpec ==
  Init /\ [][NextSettle]_vars /\ \A w \in 1..MaxWaiters : WF_vars(Timeout(w))

\* The broadcast operations.
NextBroadcast ==
  \/ Connection
  \/ \E c \in Sockets : SocketClose(c)
  \/ \E id \in BroadcastIds, data \in DataSet : BroadcastSend(id, data)
  \/ \E id \in WaiterIds, data \in DataSet : BroadcastWaiter(id, data)
  \/ \E id \in WaiterIds, data \in DataSet : BroadcastWaiterTimeout(id, data)
  \/ \E w \in 1..Len(waiters) : Timeout(w)
  \/ \E c \in Sockets : Deliver(c)
  \/ \E c \in Sockets, k \in 1..(MaxWaiters + MaxSent), val \in Values : PeerReply(c, k, val)

SpecBroadcast == Init /\ [][NextBroadcast]_vars

\* Waiters on several connections whose peers send frames with any
\* correlation id.
NextCross ==
  \/ Connection
  \/ \E c \in Sockets : SocketClose(c)
  \/ \E c \in Sockets, id \in PeerHandlers, data \in DataSet : Waiter(c, id, data)
  \/ \E w \in 1..Len(waiters) : Timeout(w)
  \/ \E c \in Sockets, frame \in CrossFrames : PeerSend(c, frame)
  \/ \E c \in Sockets : Deliver(c)

SpecCross == Init /\ [][NextCross]_vars

\* Requests of the peers to the handlers the application registered.
NextDispatch ==
  \/ Connection
  \/ \E c \in Sockets : SocketClose(c)
  \/ \E id \in UserIds : SetMessageHandler(id)
  \/ \E id \in UserIds : RemoveMessageHandler(id)
  \/ \E id \in UserIds : OnceMessageHandler(id)
  \/ \E c \in Sockets, frame \in RequestFrames : PeerSend(c, frame)
  \/ \E c \in Sockets : Deliver(c)
  \/ \E k \in 1..Len(pending), val \in HandlerValues : HandlerReturn(k, val)

SpecDispatch == Init /\ [][NextDispatch]_vars

\* Requests of the peers to handlers that return, throw or reject.
NextFaults ==
  \/ Connection
  \/ \E c \in Sockets : SocketClose(c)
  \/ \E id \in UserIds : SetMessageHandler(id)
  \/ \E id \in UserIds : RemoveMessageHandler(id)
  \/ \E id \in UserIds : OnceMessageHandler(id)
  \/ \E c \in Sockets, frame \in RequestFrames : PeerSend(c, frame)
  \/ \E c \in Sockets : Deliver(c)
  \/ \E k \in 1..Len(pending), val \in HandlerValues : HandlerReturn(k, val)
  \/ \E k \in 1..Len(pending) : HandlerThrow(k)

SpecFaults == Init /\ [][NextFaults]_vars

\* What the dispatcher does with each kind of inbound text.
NextInput ==
  \/ Connection
  \/ \E c \in Sockets : SocketClose(c)
  \/ \E id \in UserIds : SetMessageHandler(id)
  \/ \E id \in UserIds : RemoveMessageHandler(id)
  \/ \E c \in Sockets, frame \in InputFrames : PeerSend(c, frame)
  \/ \E c \in Sockets, text \in RawTexts : PeerSendRaw(c, text)
  \/ \E c \in Sockets : Deliver(c)
  \/ \E k \in 1..Len(pending), val \in HandlerValues : HandlerReturn(k, val)

SpecInput == Init /\ [][NextInput]_vars

\* Connects, bans and closes.
NextBan ==
  \/ \E addr \in Addresses : Connect(addr)
  \/ \E c \in Sockets : SocketClose(c)
  \/ \E c \in Sockets, reason \in Reasons : BanClient(c, reason)
  \/ HttpRequest

SpecBan == Init /\ [][NextBan]_vars

\* Kicking, next to banning.
NextKick ==
  \/ \E addr \in Addresses : Connect(addr)
  \/ \E c \in Sockets : SocketClose(c)
  \/ \E c \in Sockets, reason \in Reasons : KickClient(c, reason)
  \/ \E c \in Sockets, reason \in Reasons : BanClient(c, reason)

SpecKick == Init /\ [][NextKick]_vars

\* Encoding and decoding of envelopes.
NextCodec ==
  \/ \E env \in Envelopes : Encode(env)
  \/ Decode

SpecCodec == Init /\ [][NextCodec]_vars

\* Upgrade requests, at the server and at the two wrappers.
NextUpgrade ==
  \/ \E addr \in Addresses, setCookie \in SetCookieHeaders, sType \in STypeHeaders :
        Upgrade(addr, setCookie, sType)
  \/ \E c \in Sockets : SocketClose(c)
  \/ StopServer
  \/ NodeServerWrapper(FALSE)
  \/ BunServerWrapper(FALSE, FALSE)
  \/ \E addr \in Addresses, setCookie \in SetCookieHeaders, sType \in STypeHeaders :
        WrapperUpgrade(addr, setCookie, sType)
  \/ \E c \in 1..Len(wsockets) : WrapperSocketClose(c)

SpecUpgrade == Init /\ [][NextUpgrade]_vars

\* Listeners of the connect and disconnect events.
NextEvents ==
  \/ Connection
  \/ \E c \in Sockets : SocketClose(c)
  \/ \E eventType \in ConnectionEvents, callback \in EventCallbacks :
        AddEventListener(eventType, callback)
  \/ \E eventType \in ConnectionEvents, callback \in EventCallbacks :
        RemoveEventListener(eventType, callback)
  \/ \E eventType \in ConnectionEvents, callback \in EventCallbacks :
        OnceEventListener(eventType, callback)

SpecEvents == Init /\ [][NextEvents]_vars

\* Observers of the inbound messages next to the handlers.
NextObservers ==
  \/ Connection
  \/ \E id \in UserIds : SetMessageHandler(id)
  \/ \E c \in Sockets, frame \in InputFrames : PeerSend(c, frame)
  \/ \E c \in Sockets : Deliver(c)
  \/ \E k \in 1..Len(pending), val \in HandlerValues : HandlerReturn(k, val)
  \/ \E eventType \in MessageEvents, callback \in EventCallbacks :
        AddEventListener(eventType, callback)
  \/ \E eventType \in MessageEvents, callback \in EventCallbacks :
        OnceEventListener(eventType, callback)

SpecObservers == Init /\ [][NextObservers]_vars

\* Connect attempts from banned addresses: at the server, which closes after
\* the connect, and at a wrapper with and without rejectBannedIpBeforeConnectionUpgrade.
NextBanModes ==
  \/ \E addr \in Addresses : Connect(addr)
  \/ \E c \in Sockets : SocketClose(c)
  \/ \E c \in Sockets, reason \in Reasons : BanClient(c, reason)
  \/ HttpRequest
  \/ \E strict \in BOOLEAN : NodeServerWrapper(strict)
  \/ \E strict \in BOOLEAN : BunServerWrapper(strict, FALSE)
  \/ \E map \in BanMaps : SetServerWrapper(map)
  \/ \E addr \in Addresses : WrapperUpgrade(addr, "undefined", "undefined")
  \/ \E c \in 1..Len(wsockets) : WrapperSocketClose(c)

SpecBanModes == Init /\ [][NextBanModes]_vars

\* Stopping the server.
NextStop ==
  \/ Connection
  \/ \E c \in Sockets : SocketClose(c)
  \/ StopServer
  \/ \E reason \in Reasons : StopServerAsync(reason)

SpecStop == Init /\ [][NextStop]_vars

\* The closing handshake the server started on connection c ends: the peer
\* answers the close frame, or the close timer of ws destroys the socket.
HandshakeEnds(c) == c \in Sockets /\ readyState[c] = "CLOSING" /\ SocketClose(c)

\* The stops with the handshakes the server started ending in time; a peer
\* whose connection is open closes it when it wants to, or never.
FairStop ==
  Init /\ [][NextStop]_vars /\ \A c \in 1..MaxConns : WF_vars(HandshakeEnds(c))

\* The two wrappers of the transport.
NextWrapper ==
  \/ \E strict \in BOOLEAN : NodeServerWrapper(strict)
  \/ \E strict, throws \in BOOLEAN : BunServerWrapper(strict, throws)
  \/ \E map \in BanMaps : SetServerWrapper(map)
  \/ \E addr \in Addresses, setCookie \in SetCookieHeaders, sType \in STypeHeaders :
        WrapperUpgrade(addr, setCookie, sType)
  \/ \E c \in 1..Len(wsockets) : WrapperSocketClose(c)
  \/ \E reason \in Reasons, sync \in BOOLEAN : WrapperClose(reason, sync)
  \/ \E reason \in Reasons, sync \in BOOLEAN : WrapperCloseAsync(reason, sync)

SpecWrapper == Init /\ [][NextWrapper]_vars

\* closeAsync called again before an earlier closeAsync has settled.
NextReentry ==
  \/ NodeServerWrapper(FALSE)
  \/ BunServerWrapper(FALSE, FALSE)
  \/ \E addr \in Addresses : WrapperUpgrade(addr, "undefined", "undefined")
  \/ \E c \in 1..Len(wsockets) : WrapperSocketClose(c)
  \/ \E reason \in Reasons, sync \in BOOLEAN : WrapperCloseAsync(reason, sync)
  \/ \E reason \in Reasons, sync \in BOOLEAN : WrapperCloseAsyncTwice(reason, sync)

SpecReentry == Init /\ [][NextReentry]_vars

\* A Node wrapper and a Bun wrapper side by side.
NextTwin ==
  \/ TwinStart
  \/ \E addr \in Addresses : TwinUpgrade(addr)
  \/ \E c \in 1..MaxConns : TwinSocketClose(c)
  \/ \E reason \in Reasons, sync \in BOOLEAN : TwinClose(reason, sync)
  \/ \E reason \in Reasons, sync \in BOOLEAN : TwinCloseAsync(reason, sync)

SpecTwin == Init /\ [][NextTwin]_vars

\* The lifecycle of the server and of a wrapper: construction and stopping.
\* The wrapper has no connections here: its status does not depend on them.
NextLifecycle ==
  \/ Connection
  \/ \E c \in Sockets : SocketClose(c)
  \/ StopServer
  \/ \E reason \in Reasons : StopServerAsync(reason)
  \/ \E identifier \in UserIds : SetMessageHandler(identifier)
  \/ \E identifier \in UserIds : OnceMessageHandler(identifier)
  \/ NodeServerWrapper(FALSE)
  \/ \E throws \in BOOLEAN : BunServerWrapper(FALSE, throws)
  \/ WrapperClose("undefined", FALSE)
  \/ WrapperCloseAsync("undefined", FALSE)

SpecLifecycle == Init /\ [][NextLifecycle]_vars
\* ------------------------------------------------------------ properties
Settled == {"undefined"} \cup Values

\* this step is the 'message' event of connection c for the oldest frame in flight
Delivered(c) ==
  /\ inbox[c] # <<>>
  /\ readyState[c] = "OPEN"
  /\ readyState'[c] = "OPEN"
  /\ inbox'[c] = Tail(inbox[c])

\* frame f is a reply that carries the correlation id of waiter w
ReplyFor(w, f) == f.marker /\ f.identifier = waiters[w].uuid /\ ~f.message.isNull

\* C1: when the reply to a waiter is delivered while its timer is still armed,
\* the waiter resolves to the value the reply carries, which is never undefined.
C1_ReplyBeforeTimeout ==
  [][\A c \in Sockets, w \in 1..Len(waiters) :
       (Delivered(c) /\ ReplyFor(w, Head(inbox[c])) /\ waiters[w].timer = "armed")
       => /\ waiters'[w].result = Head(inbox[c]).message.items[1]
          /\ waiters'[w].result # "undefined"]_vars

C1_Witness ==
  \E w \in 1..Len(waiters) : waiters[w].timer = "cleared" /\ waiters[w].result \in Values

\* C2: a waiter whose timer expired before any reply was handled is resolved to
\* undefined; no waiter is ever in another state than pending or fulfilled.
C2_TimeoutGivesUndefined ==
  \A w \in 1..Len(waiters) :
    /\ waiters[w].timer = "fired" => waiters[w].result = "undefined"
    /\ waiters[w].result \in {"pending"} \cup Settled

C2_Witness ==
  \E w \in 1..Len(waiters) :
    /\ waiters[w].timer = "fired"
    /\ waiters[w].result = "undefined"
    /\ readyState[waiters[w].socket] = "OPEN"

\* C3: after a waiter timed out no handler is registered under its correlation
\* id, and once every waiter has settled the handler table holds only the
\* identifiers the application registered.
C3_NoHandlerAfterTimeout ==
  /\ \A w \in 1..Len(waiters) :
       waiters[w].timer = "fired" => waiters[w].uuid \notin DOMAIN callbacks
  /\ (\A w \in 1..Len(waiters) : waiters[w].result # "pending")
       => DOMAIN callbacks \subseteq UserIds

\* C4: a settled waiter never changes its result (a late reply leaves undefined
\* in place); once the reply was handled the timer stays cancelled and the
\* handler is unregistered, so a second frame with the same id invokes nothing.
C4_SettlesOnce ==
  [][\A w \in 1..Len(waiters) :
       /\ waiters[w].result # "pending" => waiters'[w].result = waiters[w].result
       /\ waiters[w].timer = "cleared" => waiters'[w].timer = "cleared"
       /\ waiters'[w].timer = "cleared" => waiters'[w].uuid \notin DOMAIN callbacks'
       /\ \A c \in Sockets :
            (Delivered(c) /\ ReplyFor(w, Head(inbox[c])) /\ waiters[w].timer = "cleared")
            => UNCHANGED <<waiters, callbacks, sent>>]_vars

\* a reply arrived after the timeout: the handler ran and the result stayed undefined
C4_Witness ==
  \E w \in 1..Len(waiters) :
    /\ waiters[w].timer = "fired"
    /\ waiters[w].result = "undefined"
    /\ waiters[w].uuid \notin DOMAIN callbacks

\* C5: every waiter that was started eventually settles, whether the peer
\* replies, stays silent, has no handler, or the connection closes.
C5_EventuallySettles ==
  \A w \in 1..MaxWaiters :
    (Len(waiters) >= w) ~> (Len(waiters) >= w /\ waiters[w].result \in Settled)

\* a waiter settled although its connection closed and its peer has no handler
C5_Witness ==
  \E w \in 1..Len(waiters) :
    /\ readyState[waiters[w].socket] = "CLOSED"
    /\ waiters[w].result \in Settled
    /\ \A c \in Sockets : \A k \in 1..Len(sent[c]) :
         sent[c][k].callbackId = waiters[w].uuid => sent[c][k].identifier \notin PeerHandlers

\* C6: the waiters hold pairwise distinct correlation ids, and the delivery of
\* a reply settles the waiter whose id it carries with the value it carries and
\* leaves every other waiter as it was.
C6_OwnReply ==
  [][/\ \A w1, w2 \in 1..Len(waiters') :
          w1 # w2 => waiters'[w1].uuid # waiters'[w2].uuid
     /\ \A c \in Sockets, w \in 1..Len(waiters) :
          (Delivered(c) /\ ReplyFor(w, Head(inbox[c])))
          => /\ waiters[w].result = "pending"
                  => waiters'[w].result = Head(inbox[c]).message.items[1]
             /\ \A w2 \in 1..Len(waiters) : w2 # w => waiters'[w2] = waiters[w2]]_vars

\* the second waiter got its reply while the first was still outstanding
C6_Witness ==
  /\ Len(waiters) >= 2
  /\ waiters[1].result = "pending"
  /\ waiters[1].timer = "armed"
  /\ waiters[2].timer = "cleared"
  /\ waiters[2].result \in Values

\* the promises of broadcast b whose request was written to a live connection
LiveAtCall(b) ==
  {j \in 1..Len(b.promises) :
     LET w == waiters[b.promises[j]]
     IN \E i \in 1..Len(sent[w.socket]) : sent[w.socket][i].callbackId = w.uuid}

\* C7: a resolved broadcastWaiter holds exactly one entry per connection that
\* was live when it was called, each a reply value or undefined.
C7_OneEntryPerLiveConnection ==
  \A k \in 1..Len(broadcasts) :
    broadcasts[k].done
    => /\ Len(broadcasts[k].resp) = Cardinality(LiveAtCall(broadcasts[k]))
       /\ \A j \in 1..Len(broadcasts[k].resp) : broadcasts[k].resp[j] \in Settled

\* the connections of the list that are live, in list order
LiveList == SelectSeq(clients, LAMBDA c : readyState[c] # "CLOSED")

\* C8: the i-th waiter a broadcastWaiter call issues goes to the i-th
\* connection of the live-connection list of that moment; a connection accepted
\* later starts with nothing written to it.
C8_EntryOrder ==
  [][/\ Len(broadcasts') = Len(broadcasts) + 1
        => LET b == broadcasts'[Len(broadcasts')]
           IN [j \in 1..Len(b.promises) |-> waiters'[b.promises[j]].socket] = LiveList
     /\ Len(clients') = Len(clients) + 1 => sent'[Len(clients')] = <<>>]_vars

\* C9: a broadcastWaiter call is resolved exactly when each of its waiters has
\* settled, and then entry j is the result of its j-th waiter.
C9_ResolvesWhenAllSettled ==
  \A k \in 1..Len(broadcasts) :
    LET b == broadcasts[k]
    IN /\ b.done <=> \A j \in 1..Len(b.promises) : waiters[b.promises[j]].result \in Settled
       /\ b.done => /\ Len(b.resp) = Len(b.promises)
                    /\ \A j \in 1..Len(b.promises) :
                         b.resp[j] = waiters[b.promises[j]].result

\* a call resolved with a value next to the undefined of a connection that closed
C9_Witness ==
  \E k \in 1..Len(broadcasts) :
    LET b == broadcasts[k]
    IN /\ b.done
       /\ \E j1, j2 \in 1..Len(b.promises) :
            /\ b.resp[j1] \in Values
            /\ b.resp[j2] = "undefined"
            /\ readyState[waiters[b.promises[j2]].socket] = "CLOSED"
            /\ j2 \in LiveAtCall(b)

\* C10: broadcastSend appends to every open connection the one frame
\* {identifier, message: data, callbackId: null}, writes nothing to a closed
\* one, and leaves the handler table and the waiters alone.
C10_BroadcastSendWritesAll ==
  [][\A id \in BroadcastIds, data \in DataSet :
       BroadcastSend(id, data)
       => /\ \A c \in Sockets :
               sent'[c] = IF readyState[c] = "OPEN"
                          THEN Append(sent[c], [marker |-> FALSE, identifier |-> id,
                                                message |-> JArr(data),
                                                callbackId |-> "null"])
                          ELSE sent[c]
          /\ UNCHANGED <<callbacks, waiters, broadcasts>>]_vars

C10_Witness ==
  \E c1, c2 \in Sockets :
    /\ c1 # c2
    /\ \A c \in {c1, c2} :
         \E i \in 1..Len(sent[c]) :
           sent[c][i].identifier \in BroadcastIds /\ sent[c][i].callbackId = "null"
    /\ DOMAIN callbacks = {}

\* this step accepted a connection, which is now the last of clients
Accepted == Len(clients') = Len(clients) + 1

\* C11: a connect attempt from an address that is in the ban table never
\* yields an open connection in clients.
C11_BannedNeverConnects ==
  [][(Accepted /\ ip'[Len(clients')] \in DOMAIN bannedIpsAndReasons)
     => readyState'[Len(clients')] # "OPEN"]_vars

\* C12: when banClient bans an address, every connection from that address
\* that is open at that moment is closed with close code BANNED.
C12_BanClosesAllOfAddress ==
  [][\A c \in Sockets, reason \in Reasons :
       BanClient(c, reason)
       => \A d \in Sockets :
            (ip[d] = ip[c] /\ readyState[d] = "OPEN")
            => readyState'[d] # "OPEN" /\ closeSent'[d].code = BANNED]_vars

\* C13: a connection accepted from a banned address is closed at once with
\* close code BANNED and the reason recorded in the ban table.
C13_BannedClosedOnConnect ==
  [][(Accepted /\ ip'[Len(clients')] \in DOMAIN bannedIpsAndReasons)
     => /\ readyState'[Len(clients')] = "CLOSING"
        /\ closeSent'[Len(clients')] =
             [code |-> BANNED, reason |-> bannedIpsAndReasons[ip'[Len(clients')]]]]_vars

\* C14: clients holds exactly the connections whose close has not occurred.
C14_ClientsAreLive ==
  \A i \in 1..Len(clients) : readyState[clients[i]] # "CLOSED"

\* text f is an envelope
IsEnvelope(f) == "raw" \notin DOMAIN f

\* envelope f asks for the handler registered under its identifier
Invokes(f) ==
  /\ IsEnvelope(f)
  /\ f.marker
  /\ ~f.message.isNull
  /\ f.identifier \in DOMAIN callbacks

\* C15: the delivery that invokes a handler registered with onceMessageHandler
\* unregisters it in the same step, and an envelope whose identifier has no
\* handler registered invokes nothing.
C15_OnceHandlerOnce ==
  [][\A c \in Sockets :
       Delivered(c)
       => LET f == Head(inbox[c])
          IN /\ (Invokes(f) /\ callbacks[f.identifier].kind = "once")
                => /\ f.identifier \notin DOMAIN callbacks'
                   /\ pending' = Append(pending, [socket |-> c, callbackId |-> f.callbackId,
                                                  handler |-> "once"])
             /\ (IsEnvelope(f) /\ f.identifier \notin DOMAIN callbacks)
                => pending' = pending]_vars

\* a one-shot handler is running and its identifier is not registered any more
C15_Witness ==
  \E k \in 1..Len(pending) :
    pending[k].handler = "once" /\ "serverSample" \notin DOMAIN callbacks

\* C16: when a handler invoked for a request completes with a value, one frame
\* {identifier: callbackId of that request, message: [value], callbackId: null}
\* is written to the connection of the request while it is open; a request
\* with a null callbackId gets nothing written, and the invocation itself
\* writes nothing.
C16_ReplyToOwnRequest ==
  [][/\ \A k \in 1..Len(pending), val \in HandlerValues :
          HandlerReturn(k, val)
          => sent' = IF pending[k].callbackId # "null" /\ readyState[pending[k].socket] = "OPEN"
                     THEN [sent EXCEPT ![pending[k].socket] =
                             Append(@, [marker |-> FALSE,
                                        identifier |-> pending[k].callbackId,
                                        message |-> JArr(<<val>>),
                                        callbackId |-> "null"])]
                     ELSE sent
     /\ \A c \in Sockets :
          (Delivered(c) /\ Invokes(Head(inbox[c]))) => sent' = sent]_vars

\* both requests of a connection were answered, each under its own callbackId
C16_Witness ==
  \E c \in Sockets :
    /\ Len(sent[c]) = 2
    /\ sent[c][1].identifier = "pcb2"
    /\ sent[c][2].identifier = "pcb"
    /\ sent[c][1].message = JArr(<<"serverSampleText success">>)

\* C17: the delivery of an envelope whose identifier has no handler registered
\* changes neither the handler table nor the running invocations, writes
\* nothing and leaves the connection open.
C17_MissingHandlerDropped ==
  [][\A c \in Sockets :
       (Delivered(c) /\ IsEnvelope(Head(inbox[c]))
          /\ Head(inbox[c]).identifier \notin DOMAIN callbacks)
       => UNCHANGED <<callbacks, pending, sent, readyState, waiters, unhandled>>]_vars

\* a request that wants a reply is about to be delivered and has no handler
C17_Witness ==
  \E c \in Sockets :
    /\ readyState[c] = "OPEN"
    /\ inbox[c] # <<>>
    /\ Head(inbox[c]).callbackId = "pcb"
    /\ Head(inbox[c]).identifier \notin DOMAIN callbacks
    /\ \E k \in 1..Len(pending) : pending[k].socket = c

\* C18: the delivery of a text that is not an envelope runs no handler, writes
\* nothing, leaves the connection open, and no rejection goes unhandled.
C18_BadTextDropped ==
  [][\A c \in Sockets :
       (Delivered(c) /\ ~IsEnvelope(Head(inbox[c])))
       => /\ UNCHANGED <<callbacks, pending, sent, readyState>>
          /\ unhandled' = FALSE]_vars

\* C19: an envelope whose identifier carries the marker invokes no registered
\* handler, and an envelope without the marker invokes the handler registered
\* under its identifier.
C19_MarkerRouting ==
  [][\A c \in Sockets :
       (Delivered(c) /\ IsEnvelope(Head(inbox[c])))
       => LET f == Head(inbox[c])
          IN /\ f.marker => pending' = pending /\ callbacks' = callbacks
             /\ (~f.marker /\ ~f.message.isNull /\ f.identifier \in DOMAIN callbacks)
                => Len(pending') = Len(pending) + 1]_vars

\* C20: a stop call made when the status is CLOSED gives the signal 'The
\* server is not running' and changes nothing: no close frame is written, no
\* 'close' event is emitted and the server state stays as it was.
C20_StopWhenClosedSignals ==
  [][(Len(stopCalls') = Len(stopCalls) + 1 /\ status = "CLOSED")
     => /\ stopCalls'[Len(stopCalls')].signal = "The server is not running"
        /\ UNCHANGED <<readyState, closeSent, closeEmitted, status, wssState, listening>>]_vars

\* the connections a graceful close had to close have all closed
AwaitedClosed(call, rs) == \A c \in call.awaits : rs[c] = "CLOSED"

\* C21: closeAsync / stopServerAsync sends every open connection a close frame
\* with code NORMAL, and the listening resource is released only after each of
\* those connections has closed: once a graceful close has released it, every
\* connection that call had to close is CLOSED.
C21_GracefulCloseOrder ==
  /\ \A i \in 1..Len(wrapper.closeCalls) :
       LET call == wrapper.closeCalls[i]
       IN (call.op = "closeAsync" /\ ~call.closedAtCall)
          => /\ \A c \in call.awaits : wsockets[c].closeSent.code = NORMAL
             /\ ~wrapper.listening
                  => AwaitedClosed(call, [c \in 1..Len(wsockets) |-> wsockets[c].readyState])
  /\ \A i \in 1..Len(stopCalls) :
       LET call == stopCalls[i]
       IN call.op = "stopServerAsync"
          => /\ \A c \in call.awaits : readyState[c] = "OPEN" \/ closeSent[c].code = NORMAL
             /\ call.signal \in {"resolved", "Server is not running."}
                  => AwaitedClosed(call, readyState)

\* the moves of the status the lifecycle allows
StatusMove(a, b) ==
  \/ a = b
  \/ <<a, b>> \in {<<"OPENING", "OPEN">>, <<"OPEN", "CLOSED">>,
                   <<"OPENING", "ERROR">>, <<"OPEN", "ERROR">>}

\* C22: the status of the server and of a wrapper moves only from opening to
\* open, from open to closed, or from opening or open to errored; the server
\* is open once constructed, and a wrapper whose constructor has run is open,
\* or errored when the constructor threw.
C22_StatusMoves ==
  /\ status = "OPEN"
  /\ [][/\ StatusMove(status, status')
        /\ StatusMove(wrapper.status, wrapper'.status)
        /\ (wrapper.kind = "none" /\ wrapper'.kind # "none")
             => wrapper'.status \in {"OPEN", "ERROR"}]_vars

\* a stop call was made on the closed server and a close call on the closed
\* wrapper: both stayed closed
C22_Witness ==
  /\ status = "CLOSED"
  /\ \E i \in 1..Len(stopCalls) : stopCalls[i].closedAtCall
  /\ wrapper.status = "CLOSED"
  /\ \E i \in 1..Len(wrapper.closeCalls) : wrapper.closeCalls[i].closedAtCall

\* C23: a connection is accepted, and setMessageHandler or onceMessageHandler
\* registers a handler, only while the status is open.
C23_OnlyWhileOpen ==
  [][/\ Accepted => status = "OPEN"
     /\ Len(wsockets') > Len(wsockets) => wrapper.status = "OPEN"
     /\ \A identifier \in UserIds :
          (identifier \in DOMAIN callbacks'
             /\ (identifier \notin DOMAIN callbacks
                   \/ callbacks'[identifier] # callbacks[identifier]))
          => status = "OPEN"]_vars

\* a connection of the address of the connection being accepted was kicked
KickedBefore(addr) == \E d \in Sockets : ip[d] = addr /\ closeSent[d].code = KICKED

\* C24: kickClient on an open connection writes it a close frame with code
\* KICKED and the given reason, touches no other connection and leaves the ban
\* table as it was; a later connection from an address that was kicked and
\* not banned is accepted and stays open.
C24_KickClosesOne ==
  [][/\ \A c \in Sockets, reason \in Reasons :
          (KickClient(c, reason) /\ readyState[c] = "OPEN")
          => /\ readyState'[c] = "CLOSING"
             /\ closeSent'[c] = [code |-> KICKED, reason |-> reason]
             /\ \A d \in Sockets \ {c} :
                  readyState'[d] = readyState[d] /\ closeSent'[d] = closeSent[d]
             /\ bannedIpsAndReasons' = bannedIpsAndReasons
     /\ (Accepted /\ KickedBefore(ip'[Len(clients')])
           /\ ip'[Len(clients')] \notin DOMAIN bannedIpsAndReasons)
          => /\ readyState'[Len(clients')] = "OPEN"
             /\ closeSent'[Len(clients')] = NoClose]_vars

\* a connection was kicked with a reason, the ban table is empty, and a later
\* connection from the same address is open
C24_Witness ==
  /\ bannedIpsAndReasons = [a \in {} |-> "undefined"]
  /\ \E c, d \in Sockets :
       /\ c < d
       /\ ip[c] = ip[d]
       /\ closeSent[c] = [code |-> KICKED, reason |-> "A reason to ban"]
       /\ readyState[d] = "OPEN"

\* C25: decoding the encoded form of an envelope gives back its identifier,
\* its message and its callbackId, also when message or callbackId is null.
C25_RoundTrip ==
  codec.stage = "decoded"
  => /\ ~codec.decoded.threw
     /\ codec.decoded.value.marker = codec.envelope.marker
     /\ codec.decoded.value.identifier = codec.envelope.identifier
     /\ codec.decoded.value.message = codec.envelope.message
     /\ codec.decoded.value.callbackId = codec.envelope.callbackId

\* the upgrade request carries a Set-Cookie header and the marker s-type = 1
Forged(setCookie, sType) == setCookie # "undefined" /\ sType = "1"

\* C26: an upgrade request with a Set-Cookie header and s-type = 1 is answered
\* with 403, at the server and at either wrapper, and no connection is made.
C26_ForgedUpgradeRejected ==
  [][\A addr \in Addresses, setCookie \in SetCookieHeaders, sType \in STypeHeaders :
       Forged(setCookie, sType)
       => /\ Upgrade(addr, setCookie, sType)
               => response' = FORBIDDEN /\ clients' = clients
          /\ WrapperUpgrade(addr, setCookie, sType)
               => response' = FORBIDDEN /\ wsockets' = wsockets]_vars

\* how often the function callback is in the list of eventType
Registered(evs, eventType, callback) ==
  Cardinality({k \in 1..Len(listenersOf(evs, eventType)) :
                 listenersOf(evs, eventType)[k] = Listener(callback)})

\* C27: addEventListener with a callback that is already registered for the
\* event type throws and leaves the listeners as they were: the callback is
\* registered once, before and after.
C27_DuplicateListenerThrows ==
  [][\A eventType \in ConnectionEvents, callback \in EventCallbacks :
       (AddEventListener(eventType, callback)
          /\ Registered(serverEvents, eventType, callback) > 0)
       => /\ thrown' # "none"
          /\ serverEvents' = serverEvents
          /\ Registered(serverEvents', eventType, callback) = 1]_vars

\* the last addEventListener call threw, and the callback it was given is
\* registered once next to another listener
C27_Witness ==
  /\ thrown # "none"
  /\ Len(listenersOf(serverEvents, "onClientConnect")) = 2
  /\ Registered(serverEvents, "onClientConnect", "loc") = 1

\* C28: the callback given to onceEventListener is called for at most one
\* occurrence of the event, and once it was called its wrapper is in no list.
C28_OnceListenerOnce ==
  \A n \in 1..Len(fired) :
    /\ fired[n].calls <= 1
    /\ fired[n].calls = 1
         => \A eventType \in DOMAIN serverEvents :
              \A k \in 1..Len(serverEvents[eventType]) :
                serverEvents[eventType][k] # OnceListener(fired[n].callback, n)

\* a once listener of the connect event was called at the first connection;
\* the second connection called nothing
C28_Witness ==
  /\ Len(clients) = 2
  /\ \A c \in Sockets : readyState[c] = "OPEN"
  /\ trace = <<>>
  /\ \E n \in 1..Len(fired) : fired[n].event = "onClientConnect" /\ fired[n].calls = 1

\* one call of each listener of eventType, in the order of the list
Calls(evs, eventType) ==
  [k \in 1..Len(listenersOf(evs, eventType)) |->
     [event |-> eventType, listener |-> listenersOf(evs, eventType)[k]]]

\* the call of the handler of envelope f, when it is registered and f has a message
HandlerCall(f) ==
  IF f.identifier \in DOMAIN callbacks /\ ~f.message.isNull
  THEN <<[event |-> "callback", listener |-> Listener(f.identifier)]>>
  ELSE <<>>

\* C29: the delivery of an envelope the dispatcher takes for a user envelope
\* calls each raw-message observer once, then each before-callback observer
\* once, and then the handler when it is registered and the message is present;
\* nothing else is called.
C29_ObserversThenHandler ==
  [][\A c \in Sockets :
       (Delivered(c) /\ IsEnvelope(Head(inbox[c])) /\ Head(inbox[c]).marker)
       => trace' = Calls(serverEvents, "onClientRawMessageBeforeCallback")
                     \o Calls(serverEvents, "onClientMessageBeforeCallback")
                     \o HandlerCall(Head(inbox[c]))]_vars

\* how often the 'close' event of a connection of the wrapper was emitted
RECURSIVE notifications(_)
notifications(ws) ==
  IF ws = <<>> THEN 0 ELSE Head(ws).notified + notifications(Tail(ws))

\* C30: a connect attempt from a banned address reaches the close notification
\* once, on either path: a wrapper in strict mode rejects the upgrade with 403
\* and the close is notified once for the attempt; the server in default mode
\* accepts the connection and closes it at once, and a connection is notified
\* of its close when it becomes CLOSED, which it stays.
C30_BannedAttemptNotifiedOnce ==
  [][/\ \A addr \in Addresses :
          (WrapperUpgrade(addr, "undefined", "undefined")
             /\ wrapper.strict
             /\ addr \in DOMAIN wrapper.bannedIpsAndReasons)
          => /\ response' = FORBIDDEN
             /\ notifications(wsockets') = notifications(wsockets) + 1
     /\ (Accepted /\ ip'[Len(clients')] \in DOMAIN bannedIpsAndReasons)
          => readyState'[Len(clients')] = "CLOSING"
     /\ \A c \in Sockets : readyState[c] = "CLOSED" => readyState'[c] = "CLOSED"]_vars

\* C31: every stopServerAsync call eventually settles, resolved or rejected,
\* whatever the peers do.
C31_StopAsyncSettles ==
  \A i \in 1..MaxStops :
    (Len(stopCalls) >= i /\ stopCalls[i].op = "stopServerAsync")
      ~> (Len(stopCalls) >= i /\ stopCalls[i].signal \notin {"pending", "closing"})

\* what the registry sees of a wrapper: its status, the connections its
\* clients getter returns, the 'connection' events, the 'close' events of each
\* connection and the 'close' events of the server
Observed(side) ==
  [status |-> side.wrapper.status,
   clients |-> wrapperClients(side.wsockets),
   connections |-> Len(side.wsockets),
   closes |-> [c \in 1..Len(side.wsockets) |-> side.wsockets[c].notified],
   closeEmitted |-> side.wrapper.closeEmitted]

\* C32: after the same operations the Node wrapper and the Bun wrapper show
\* the same status, the same open connections and the same 'connection' and
\* 'close' events.
C32_WrappersAgree == Observed(twin.node) = Observed(twin.bun)

\* C33: the delivery, on connection c, of an envelope that carries the
\* correlation id of a waiter of another connection leaves that waiter and
\* its registration as they were.
C33_WaiterOwnConnection ==
  [][\A c \in Sockets, w \in 1..Len(waiters) :
       (Delivered(c) /\ ReplyFor(w, Head(inbox[c])) /\ waiters[w].socket # c)
       => /\ waiters'[w] = waiters[w]
          /\ waiters[w].uuid \in DOMAIN callbacks
               => waiters[w].uuid \in DOMAIN callbacks']_vars

\* connection c closes in this step
Closes(c) == readyState[c] # "CLOSED" /\ readyState'[c] = "CLOSED"

\* C34: a connect calls every listener that is registered for onClientConnect
\* when it happens, each once and in the order of the list, and a close does
\* the same for onClientDisconnect, also when a once listener is among them.
C34_EveryListenerCalled ==
  [][/\ Accepted => trace' = Calls(serverEvents, "onClientConnect")
     /\ \A c \in Sockets :
          Closes(c) => trace' = Calls(serverEvents, "onClientDisconnect")]_vars

\* the ban of addr in map was recorded without a reason
NoReason(map, addr) == addr \in DOMAIN map /\ map[addr] = "undefined"

\* the answer of the wrapper to an upgrade request from addr, were the ban of
\* addr recorded with a reason
AnswerWithReason(addr) ==
  LET w == [wrapper EXCEPT !.bannedIpsAndReasons[addr] = "A reason to ban"]
  IN IF wrapper.kind = "node"
     THEN nodeUpgradeOn(wsockets, addr, "undefined", "undefined").response
     ELSE handleFetchOn(w, wsockets, addr, "undefined", "undefined").response

\* C35: a ban recorded without a reason is enforced like one with a reason: a
\* connection the server accepts from the address is closed with BANNED (no
\* plain HTTP request having been received), and a wrapper in strict mode
\* answers the upgrade request as it answers for a ban with a reason.
C35_BanWithoutReason ==
  [][/\ (Accepted /\ ~hasrequested /\ NoReason(bannedIpsAndReasons, ip'[Len(clients')]))
          => /\ readyState'[Len(clients')] = "CLOSING"
             /\ closeSent'[Len(clients')].code = BANNED
     /\ \A addr \in Addresses :
          (WrapperUpgrade(addr, "undefined", "undefined")
             /\ wrapper.strict
             /\ NoReason(wrapper.bannedIpsAndReasons, addr))
          => response' = AnswerWithReason(addr)]_vars

\* the ban of addr in map was recorded with a reason
WithReason(map, addr) == addr \in DOMAIN map /\ truthy(map[addr])

\* C36: a connection accepted from an address that is banned with a reason is
\* closed with BANNED and that reason, whether or not a plain HTTP request
\* has been received before.
C36_BanCheckIgnoresTraffic ==
  [][(Accepted /\ WithReason(bannedIpsAndReasons, ip'[Len(clients')]))
     => /\ readyState'[Len(clients')] = "CLOSING"
        /\ closeSent'[Len(clients')] =
             [code |-> BANNED, reason |-> bannedIpsAndReasons[ip'[Len(clients')]]]]_vars

\* the closeAsync calls that were made while the wrapper was running
Shutdowns(w) ==
  {i \in 1..Len(w.closeCalls) : w.closeCalls[i].signal \in {"pending", "resolved"}}

\* C37: of the closeAsync calls made on a wrapper, also those made while an
\* earlier one has not settled, one performs the shutdown and every other is
\* rejected with 'The server is not running'; the 'close' event is emitted at
\* most once.
C37_OneShutdown ==
  /\ Cardinality(Shutdowns(wrapper)) <= 1
  /\ \A i \in 1..Len(wrapper.closeCalls) :
       i \notin Shutdowns(wrapper)
         => wrapper.closeCalls[i].signal = "The server is not running"
  /\ wrapper.closeEmitted <= 1

\* a closeAsync call that was made on the running wrapper has resolved
ResolvedCloseAsync(call) ==
  call.op = "closeAsync" /\ ~call.closedAtCall /\ call.signal = "resolved"

\* C38: once a closeAsync call has resolved no connection of the wrapper is
\* open, every connection that was open when it was called has been sent a
\* close frame with code NORMAL, and every connection that has left the
\* connected set is closed or has been sent a close frame.
C38_NoneLeftOpen ==
  \A i \in 1..Len(wrapper.closeCalls) :
    ResolvedCloseAsync(wrapper.closeCalls[i])
    => /\ \A c \in 1..Len(wsockets) :
            /\ wsockets[c].readyState # "OPEN"
            /\ ~wsockets[c].tracked => \/ wsockets[c].readyState = "CLOSED"
                                        \/ wsockets[c].closeSent # NoClose
       /\ \A c \in wrapper.closeCalls[i].awaits : wsockets[c].closeSent.code = NORMAL

\* closeAsync of a Bun wrapper with two connections has resolved: both were
\* sent the close frame, one handshake has ended and one has not
C38_Witness ==
  /\ wrapper.kind = "bun"
  /\ \E i \in 1..Len(wrapper.closeCalls) :
       /\ ResolvedCloseAsync(wrapper.closeCalls[i])
       /\ wrapper.closeCalls[i].awaits = {1, 2}
  /\ wsockets[1].readyState = "CLOSED"
  /\ wsockets[2].readyState = "CLOSING"
  /\ wsockets[2].closeSent.code = NORMAL

C40_HandlerFailureContained ==
  [][\A k \in 1..Len(pending) :
       HandlerThrow(k)
       => /\ sent' = sent
          /\ unhandled' = unhandled
          /\ readyState' = readyState
          /\ callbacks' = callbacks
          /\ inbox' = inbox]_vars
====
